---- MODULE Spec2Model ----
(***************************************************************************)
(* State-manager core of @lvmk/react: the cache storage                    *)
(* (createCacheStorage), the structural helpers (deepClone / deepEqual),   *)
(* and createStateManager (setState / revert, subscribe / emitChanges,     *)
(* the useState / useStateValue snapshot path, the purity validator).      *)
(*                                                                         *)
(* JavaScript values are modelled in two layers.  A structural value is a  *)
(* record [t, v]: t is the runtime type, v the contents.  A value as the   *)
(* cache sees it is a record [ref, val]: val is the structural value and   *)
(* ref the object identity (0 for primitives, which === compares by        *)
(* value; a positive number for an object).  A new object gets the least   *)
(* identity no live value uses, so identities stay in a finite range.      *)
(***************************************************************************)
EXTENDS Integers, Sequences, FiniteSets, TLC

VARIABLES
    storage,      \* createCacheStorage: the tree of Maps, position -> node
    call,         \* the last cache / clear call: its arguments and its result
    stateValue,   \* createStateManager: the module-level state (baseline)
    stateRef,     \* useContextStateData: stateRef.current, the live State
    subscribers,  \* useContextStateData: the Set of callbacks, in insertion
                  \* order
    hooks,        \* one useState / useStateValue call site per consumer
    uidCount,     \* how many Symbols uid() has handed out
    made,         \* how many hook instances each consumer has created
    held,         \* the revert closure the caller still holds, if any
    handles,      \* the callbacks whose unsubscribe function the caller holds
    owned,        \* per State key: the object the caller holds for it, if any
    last,         \* the last state-manager operation and its outcome
    persistent,   \* typeof window !== 'undefined': a browser, not a server
    window,       \* window.__CONTEXT_STATE__: contextId -> {state, instance}
    managers,     \* the createStateManager calls made so far, in order
    providers,    \* the Provider elements rendered so far, in order
    contexts,     \* how many React contexts createContext has made
    uses,         \* how many hook instances have been created
    probe,        \* the last operation on the instances and its outcome
    heap,         \* the objects of a program calling deepClone / deepEqual
    args,         \* the arguments of the last helper call
    outcome,      \* what the last helper call returned
    sync,         \* a StateSynchronizer element: its props, ref and effect
    listeners,    \* window.__LVMK_EVENT_LISTENER__: the entries, in Map order
    listenerHooks,\* per component calling useEventListener: its refs
    invocations,  \* the stableHandler calls made so far, in order
    emissions,    \* the emitEvent calls made so far, in order
    aborted,      \* the AbortControllers whose abort() has been called
    symbols,      \* how many Symbols the listener effects have made
    did           \* the last operation on the events and its subject

cacheVars == <<storage, call>>
callerVars == <<handles, owned>>
coreVars == <<storage, call, stateValue, stateRef, subscribers, hooks,
              uidCount, made, held, handles, owned, last>>
instanceVars == <<persistent, window, managers, providers, contexts, uses,
                  probe>>
helperVars == <<heap, args, outcome>>
eventVars == <<listeners, listenerHooks, invocations, emissions, aborted,
               symbols, did>>
otherVars == <<instanceVars, helperVars, sync, eventVars>>
managerVars == <<stateValue, stateRef, subscribers, hooks, uidCount, made,
                 held, handles, owned, last, otherVars>>
vars == <<storage, call, stateValue, stateRef, subscribers, hooks, uidCount,
          made, held, handles, owned, last, otherVars>>

----------------------------------------------------------------------------
(* Bounds                                                                  *)

MaxHooks == 2      \* hook instances created over a run (first renders)

----------------------------------------------------------------------------
(* Structural values                                                       *)

Undef == [t |-> "undef", v |-> 0]
Num(n) == [t |-> "num", v |-> n]
Str(s) == [t |-> "str", v |-> s]
Arr(s) == [t |-> "arr", v |-> s]
SetOf(S) == [t |-> "set", v |-> S]
Obj(f) == [t |-> "obj", v |-> f]

\* a FormData object with these entry names
FormOf(S) == [t |-> "form", v |-> S]

\* the number NaN: the one value that is not === to itself
NaN == [t |-> "nan", v |-> 0]

\* the empty plain object {}
EmptyObj == Obj(<<>>)

IsPrim(x) == x.t \in {"undef", "num", "str", "nan"}

\* a value with its identity
Prim(x) == [ref |-> 0, val |-> x]
Ref(r, x) == [ref |-> r, val |-> x]

\* a === b
StrictEq(a, b) ==
    /\ a.ref = b.ref
    /\ a.val.t = b.val.t
    /\ a.val = b.val
    /\ a.val.t # "nan"

\* Object.keys(x) for a non-array object: a Set (or Map) has no own
\* enumerable string keys
keyList(x) == IF x.t = "obj" THEN DOMAIN x.v ELSE {}

RECURSIVE deepEqualVal(_, _)
deepEqualVal(a, b) ==
    IF IsPrim(a) \/ IsPrim(b)
    THEN a.t = b.t /\ a = b
    ELSE IF a.t = "arr" /\ b.t = "arr"
    THEN /\ Len(a.v) = Len(b.v)
         /\ \A i \in 1..Len(a.v) : a.v[i] = b.v[i]
    ELSE IF (a.t = "arr") # (b.t = "arr")
    THEN FALSE
    ELSE IF a.t # b.t
    THEN FALSE
    ELSE /\ Cardinality(keyList(a)) = Cardinality(keyList(b))
         /\ \A k \in keyList(a) : k \in keyList(b)
         /\ \A k \in keyList(a) : deepEqualVal(a.v[k], b.v[k])

\* deepEqual reduced to its first test, a === b
deepEqualIdentityOnly(a, b) == StrictEq(a, b)

deepEqual(a, b) == StrictEq(a, b) \/ deepEqualVal(a.val, b.val)

\* what "structurally equal" means: same type, same contents
StructEq(a, b) == a.val.t = b.val.t /\ a.val = b.val

----------------------------------------------------------------------------
(* Cache storage                                                           *)

\* A position is the sequence of Map keys from the root Map to a node:
\* cache(v, id, k1, k2) addresses the position <<k1, k2, id>>.
MapNode == [kind |-> "map", ref |-> 0, val |-> Undef]
Leaf(x) == [kind |-> "leaf", ref |-> x.ref, val |-> x.val]
Stored(n) == [ref |-> n.ref, val |-> n.val]

TypeError == [ref |-> -1, val |-> Str("TypeError")]
NoValue == [ref |-> -2, val |-> Undef]

IsPrefix(p, q) == Len(p) <= Len(q) /\ SubSeq(q, 1, Len(p)) = p

Restrict(f, D) == [x \in D |-> f[x]]

\* Map.prototype.delete / overwrite of a slot: the node and all below it go
DropSubtree(st, pos) ==
    Restrict(st, {p \in DOMAIN st : ~IsPrefix(pos, p)})

Prefixes(keys) == {SubSeq(keys, 1, i) : i \in 1..Len(keys)}

\* the path runs into a slot that holds a value, not a Map
Blocked(st, keys) ==
    \E p \in Prefixes(keys) : p \in DOMAIN st /\ st[p].kind = "leaf"

createMapIfNotExistedRecursive(st, keys) ==
    [p \in DOMAIN st \cup Prefixes(keys) |->
        IF p \in DOMAIN st THEN st[p] ELSE MapNode]

\* cacheMap.get(id) === undefined
SlotEmpty(st, pos) ==
    \/ pos \notin DOMAIN st
    \/ st[pos].kind = "leaf" /\ st[pos].val = Undef

SetSlot(st, pos, input) ==
    LET kept == DropSubtree(st, pos)
    IN  [p \in DOMAIN kept \cup {pos} |->
            IF p = pos THEN Leaf(input) ELSE kept[p]]

\* cache without the overwrite: a filled slot always wins
cacheKeepFirst(st, input, id, keys) ==
    IF Blocked(st, keys)
    THEN [st |-> st, out |-> TypeError]
    ELSE LET cacheMap == createMapIfNotExistedRecursive(st, keys)
             pos == Append(keys, id)
         IN  IF SlotEmpty(cacheMap, pos)
             THEN [st |-> SetSlot(cacheMap, pos, input), out |-> input]
             ELSE [st |-> cacheMap, out |-> Stored(cacheMap[pos])]

\* cache(input, id, ...keys): the storage afterwards and the value returned
cache(st, input, id, keys) ==
    IF Blocked(st, keys)
    THEN [st |-> st, out |-> TypeError]
    ELSE LET cacheMap == createMapIfNotExistedRecursive(st, keys)
             pos == Append(keys, id)
         IN  IF SlotEmpty(cacheMap, pos)
             THEN [st |-> SetSlot(cacheMap, pos, input), out |-> input]
             ELSE IF /\ cacheMap[pos].kind = "leaf"
                     /\ deepEqual(Stored(cacheMap[pos]), input)
             THEN [st |-> cacheMap, out |-> Stored(cacheMap[pos])]
             ELSE [st |-> SetSlot(cacheMap, pos, input), out |-> input]

\* removeMapRecursive deleting from the root Map whatever the depth
removeMapAtRoot(st, parent, keys) ==
    IF Len(keys) = 0 THEN st ELSE DropSubtree(st, <<keys[1]>>)

RECURSIVE removeMapRecursive(_, _, _)
removeMapRecursive(st, parent, keys) ==
    IF Len(keys) = 0
    THEN st
    ELSE IF Len(keys) = 1
    THEN DropSubtree(st, Append(parent, keys[1]))
    ELSE LET child == Append(parent, keys[1])
         IN  IF child \notin DOMAIN st \/ st[child].kind # "map"
             THEN st
             ELSE removeMapRecursive(st, child, Tail(keys))

clear(st, keys) == removeMapRecursive(st, <<>>, keys)

----------------------------------------------------------------------------
(* deepClone                                                               *)

\* the identity of a new object: the least one not in use
FreshRef(used) == CHOOSE r \in 1..(Cardinality(used) + 1) :
                      r \notin used /\ \A q \in 1..(r - 1) : q \in used

\* deepClone hands back the very object it was given: a FormData (or an
\* AbortSignal)
KeepsOriginal(x) == x.t = "form"

\* a WeakMap: an object of a type deepClone has no branch for
WeakMapOf == [t |-> "weak", v |-> 0]

\* throw new Error(`Unsupported type: ...`)
UnsupportedType == [t |-> "Unsupported type", v |-> 0]

\* deepClone rebuilds a value level by level; a primitive is returned as is
RECURSIVE deepClone(_)
deepClone(x) ==
    IF IsPrim(x) THEN x
    ELSE IF KeepsOriginal(x) THEN x
    ELSE IF x.t = "weak" THEN UnsupportedType
    ELSE IF x.t = "set" THEN SetOf({item : item \in x.v})
    ELSE IF x.t = "arr" THEN Arr([i \in 1..Len(x.v) |-> x.v[i]])
    ELSE Obj([k \in DOMAIN x.v |-> deepClone(x.v[k])])

\* a computed value as the caller holds it: an object computed from a new
\* clone is a new object
Boxed(x, used) == IF IsPrim(x) THEN Prim(x) ELSE Ref(FreshRef(used), x)

----------------------------------------------------------------------------
(* The State and the immutable update (Immer produceWithPatches /          *)
(* applyPatches as setState and revertChanges use them)                    *)

\* The State is a function from the top-level fields present to values.
Fields == {"count", "name", "tags"}

FieldVals(k) ==
    IF k = "count" THEN {Num(0), Num(5), Num(10)}
    ELSE IF k = "name" THEN {Str("a"), Str("b")}
    ELSE {SetOf({1}), SetOf({1, 2})}

\* the spread with its operands swapped: { ...b, ...a }
SpreadReversed(a, b) ==
    [k \in DOMAIN a \cup DOMAIN b |-> IF k \in DOMAIN a THEN a[k] ELSE b[k]]

\* { ...a, ...b }
Spread(a, b) ==
    [k \in DOMAIN a \cup DOMAIN b |-> IF k \in DOMAIN b THEN b[k] ELSE a[k]]

Without(f, k) == [x \in DOMAIN f \ {k} |-> f[x]]
With(f, k, v) == [x \in DOMAIN f \cup {k} |-> IF x = k THEN v ELSE f[x]]

\* Mutation descriptors: a partial mapping, or a draft function that makes
\* one edit (draft[k] = v, delete draft[k], draft[k].add(n)).
Partial(map) == [kind |-> "partial", map |-> map, key |-> "", val |-> Undef]
Assign(k, v) == [kind |-> "assign", map |-> <<>>, key |-> k, val |-> v]
Delete(k) == [kind |-> "delete", map |-> <<>>, key |-> k, val |-> Undef]
SetAdd(k, n) == [kind |-> "setAdd", map |-> <<>>, key |-> k, val |-> Num(n)]
NoMutation == [kind |-> "none", map |-> <<>>, key |-> "", val |-> Undef]

Patch(op, k, sub, v) == [op |-> op, key |-> k, sub |-> sub, value |-> v]

\* the draft proxy's set trap and the patches of one assigned key:
\* assigning the value the key already has (same primitive) changes nothing
AssignKey(r, base, k, v) ==
    IF k \in DOMAIN base /\ IsPrim(v) /\ base[k] = v
    THEN r
    ELSE [st |-> With(r.st, k, v),
          inv |-> <<IF k \in DOMAIN base
                    THEN Patch("replace", k, "", base[k])
                    ELSE Patch("remove", k, "", Undef)>> \o r.inv,
          threw |-> FALSE]

RECURSIVE AssignAll(_, _, _, _)
AssignAll(r, base, map, keys) ==
    IF keys = {} THEN r
    ELSE LET k == CHOOSE x \in keys : TRUE
         IN  AssignAll(AssignKey(r, base, k, deepClone(map[k])), base, map,
                       keys \ {k})

\* produceWithPatches that swallows what the recipe throws and returns the
\* draft as edited so far
produceWithPatchesPartly(base, m) ==
    IF m.kind = "partial"
    THEN LET ok == {k \in DOMAIN m.map :
                      deepClone(m.map[k]) # UnsupportedType}
         IN  [st |-> [k \in DOMAIN base \cup ok |->
                        IF k \in ok THEN deepClone(m.map[k]) ELSE base[k]],
              inv |-> <<>>, threw |-> FALSE]
    ELSE [st |-> base, inv |-> <<>>, threw |-> FALSE]

\* produceWithPatches(base, receiptFn): the next state, the inverse patches,
\* and whether the recipe threw
produceWithPatches(base, m) ==
    LET same == [st |-> base, inv |-> <<>>, threw |-> FALSE]
    IN  IF m.kind = "partial"
        THEN IF \E k \in DOMAIN m.map : deepClone(m.map[k]) = UnsupportedType
             THEN [st |-> base, inv |-> <<>>, threw |-> TRUE]
             ELSE AssignAll(same, base, m.map, DOMAIN m.map)
        ELSE IF m.kind = "assign"
        THEN AssignKey(same, base, m.key, m.val)
        ELSE IF m.kind = "delete"
        THEN IF m.key \in DOMAIN base
             THEN [st |-> Without(base, m.key),
                   inv |-> <<Patch("add", m.key, "", base[m.key])>>,
                   threw |-> FALSE]
             ELSE same
        ELSE \* draft[k].add(n)
             IF m.key \notin DOMAIN base \/ base[m.key].t # "set"
             THEN [st |-> base, inv |-> <<>>, threw |-> TRUE]
             ELSE IF m.val.v \in base[m.key].v
             THEN same
             ELSE [st |-> With(base, m.key,
                               SetOf(base[m.key].v \cup {m.val.v})),
                   inv |-> <<Patch("remove", m.key, "elem", m.val)>>,
                   threw |-> FALSE]

\* a patch that is not applied
applyPatchSkipped(st, p) == st

\* a patch application that keeps no other field: it resets them
applyPatchResetting(st, p) ==
    [k \in DOMAIN st \cup {p.key} |-> IF k = p.key THEN p.value ELSE Undef]

applyPatch(st, p) ==
    IF p.sub = ""
    THEN IF p.op = "remove" THEN Without(st, p.key)
         ELSE With(st, p.key, p.value)
    ELSE \* a patch inside the Set at st[p.key]
         IF p.key \in DOMAIN st /\ st[p.key].t = "set"
         THEN With(st, p.key, SetOf(st[p.key].v \ {p.value.v}))
         ELSE st

RECURSIVE applyPatches(_, _)
applyPatches(st, patches) ==
    IF patches = <<>> THEN st
    ELSE applyPatches(applyPatch(st, Head(patches)), Tail(patches))

----------------------------------------------------------------------------
(* Consumers: one hook call site each                                      *)

Consumers == {1, 2}

\* the hook each consumer calls
HookOf(c) == IF c = 1 THEN "useState" ELSE "useStateValue"

\* derivation functions: s => s[fn] for a field fn, the default identity,
\* () => ({}), s => Math.random() and s => new Set([Math.random()]); nth
\* tells the calls of one hook body apart, and Math.random() gives another
\* number on each of them
compute(fn, state, nth) ==
    IF fn = "identity" THEN Obj(state)
    ELSE IF fn = "newObj" THEN EmptyObj
    ELSE IF fn = "random" THEN Num(100 + nth)
    ELSE IF fn = "randomSet" THEN SetOf({100 + nth})
    ELSE IF fn \in DOMAIN state THEN state[fn] ELSE Undef

\* getStateValue(): a deep clone of stateRef.current
getStateValue(state) == deepClone(Obj(state)).v

\* uid(): a new Symbol.  A Symbol has no content, only its identity; the
\* model names it after the call that made it (consumer, hook instance,
\* role), so two calls never give the same one.
Sym(c, n, role) ==
    "Symbol(" \o ToString(c) \o "." \o ToString(n) \o "." \o role \o ")"

NoHook == [pc |-> "idle", fn |-> "", sid |-> 0, snap |-> NoValue,
           dirty |-> FALSE]

\* one stateInstance for every hook instance
stateInstanceShared(c, h) == Sym(0, 0, "stateInstance")
\* createHookCacheIds(): three Symbols per hook instance
stateInstance(c, h) == Sym(c, h.sid, "stateInstance")
getSnapshotFunction(c, h) == Sym(c, h.sid, "getSnapshotFunction")
snapshotInstance(c, h) == Sym(c, h.sid, "snapshotInstance")

SnapshotId(c, h) ==
    IF HookOf(c) = "useState" THEN getSnapshotFunction(c, h)
    ELSE "getSnapshotWithComputeFunction"

LeafPositions(st) == {p \in DOMAIN st : st[p].kind = "leaf"}

StoredRefs(st) == {st[p].ref : p \in LeafPositions(st)} \ {0}

\* the object identities some value in the model still has
UsedRefs(st, hk) ==
    StoredRefs(st) \cup ({hk[c].snap.ref : c \in Consumers} \ {0, -1, -2})

\* getSnapshot without memoizeStateValue: the computed value as it is
getSnapshotUncached(st, hk, c, state) ==
    [st |-> st,
     out |-> Boxed(compute(hk[c].fn, getStateValue(state), 3),
                   UsedRefs(st, hk))]

\* getSnapshot of consumer c: compute on a clone of the state, then through
\* the cache under the consumer's stateInstance path
getSnapshot(st, hk, c, state) ==
    cache(st,
          Boxed(compute(hk[c].fn, getStateValue(state), 3), UsedRefs(st, hk)),
          SnapshotId(c, hk[c]), <<stateInstance(c, hk[c])>>)

\* the validator comparing the two results themselves, not what the cache
\* returned for them
validateUncached(st, hk, c, state) ==
    LET first == Boxed(compute(hk[c].fn, state, 1), UsedRefs(st, hk))
        second == Boxed(compute(hk[c].fn, state, 2),
                        UsedRefs(st, hk) \cup {first.ref})
    IN  [st |-> st, threw |-> ~StrictEq(first, second)]

\* validateComputeFunctionPurity: compute twice, both through the slot
\* 'computeFunction' of the consumer
validateComputeFunctionPurity(st, hk, c, state) ==
    LET path == <<stateInstance(c, hk[c])>>
        first == cache(st,
                       Boxed(compute(hk[c].fn, state, 1), UsedRefs(st, hk)),
                       "computeFunction", path)
        second == cache(first.st,
                        Boxed(compute(hk[c].fn, state, 2),
                              UsedRefs(first.st, hk) \cup {first.out.ref}),
                        "computeFunction", path)
    IN  [st |-> second.st, threw |-> ~StrictEq(first.out, second.out)]

NoneNotified == [c \in Consumers |-> 0]

\* emitChanges stopping after the first registered callback
emitChangesFirstOnly(subs, st, hk, state, called) ==
    IF subs = <<>> THEN [st |-> st, hk |-> hk, called |-> called]
    ELSE LET c == Head(subs)
             r == getSnapshot(st, hk, c, state)
         IN  [st |-> r.st,
              hk |-> [hk EXCEPT ![c].snap = r.out, ![c].dirty = FALSE],
              called |-> [called EXCEPT ![c] = @ + 1]]

\* emitChanges(): each registered callback in turn; the callback of a
\* consumer asks for its snapshot.  called counts the invocations.
RECURSIVE emitChanges(_, _, _, _, _)
emitChanges(subs, st, hk, state, called) ==
    IF subs = <<>> THEN [st |-> st, hk |-> hk, called |-> called]
    ELSE LET c == Head(subs)
             r == getSnapshot(st, hk, c, state)
         IN  emitChanges(Tail(subs), r.st,
                         [hk EXCEPT ![c].snap = r.out, ![c].dirty = FALSE],
                         state, [called EXCEPT ![c] = @ + 1])

Range(seq) == {seq[i] : i \in 1..Len(seq)}

Remove(seq, x) == SelectSeq(seq, LAMBDA y : y # x)

\* every consumer that holds a snapshot and is not called back now holds a
\* snapshot older than the State
MarkDirty(hk, subs) ==
    [c \in Consumers |->
        IF c \notin Range(subs) /\ hk[c].snap # NoValue
        THEN [hk[c] EXCEPT !.dirty = TRUE] ELSE hk[c]]

\* the revert closure: the inverse patches it captured
NoClosure == [live |-> FALSE, inv |-> <<>>]

\* the record of an operation; base: the State before a setState call
Op(op, c, fn, m, threw, kept, base, notified) ==
    [op |-> op, c |-> c, fn |-> fn, m |-> m, threw |-> threw, kept |-> kept,
     base |-> base, notified |-> notified]

\* The caller's view of the objects in the State.  owned[k] tells whether
\* the caller holds an object for key k, and whether that object is the very
\* object the State holds under k ("same") or another one ("apart").
OwnedKeys == {"tags", "form"}

NoneOwned == [k \in OwnedKeys |-> "none"]

\* the keys a mutation descriptor assigns
KeysOf(m) == IF m.kind = "partial" THEN DOMAIN m.map ELSE {m.key} \ {""}

\* the State gets a new value under keys: an object the caller holds for
\* one of them is no longer the State's
Parted(own, keys) ==
    [k \in OwnedKeys |-> IF k \in keys /\ own[k] = "same" THEN "apart"
                         ELSE own[k]]

\* setState(updater); keep: the caller keeps the revert closure returned;
\* own: what the caller holds of the State's objects after the call
SetStateOwning(m, keep, own) ==
    LET r == produceWithPatches(stateRef, m)
    IN  IF r.threw
        THEN /\ last' = Op("setState", 0, "", m, TRUE, FALSE, stateRef,
                           NoneNotified)
             /\ UNCHANGED otherVars
             /\ UNCHANGED <<storage, call, stateValue, stateRef, subscribers,
                            hooks, uidCount, made, held, callerVars>>
        ELSE LET next == Spread(stateRef, r.st)
                 e == emitChanges(subscribers, storage,
                                  MarkDirty(hooks, subscribers), next,
                                  NoneNotified)
             IN  /\ stateRef' = next
                 /\ storage' = e.st
                 /\ hooks' = e.hk
                 /\ held' = IF keep THEN [live |-> TRUE, inv |-> r.inv]
                            ELSE held
                 /\ last' = Op("setState", 0, "", m, FALSE, keep, stateRef,
                               e.called)
                 /\ owned' = own
                 /\ UNCHANGED otherVars
                 /\ UNCHANGED <<call, stateValue, subscribers, uidCount, made,
                                handles>>

\* setState(updater) by a caller that keeps none of the objects it passed
SetState(m, keep) == SetStateOwning(m, keep, Parted(owned, KeysOf(m)))

\* setState({[k]: obj}) by a caller that keeps obj: the State gets
\* deepClone(obj) under k
SetStateHolding(k, obj) ==
    SetStateOwning(Partial([x \in {k} |-> obj]), FALSE,
                   [owned EXCEPT ![k] = IF KeepsOriginal(obj) THEN "same"
                                        ELSE "apart"])

\* revertChanges() of the closure the caller holds
Revert ==
    /\ held.live
    /\ LET reverted == applyPatches(stateRef, held.inv)
           next == Spread(stateRef, reverted)
           e == emitChanges(subscribers, storage,
                            MarkDirty(hooks, subscribers), next,
                            NoneNotified)
       IN  /\ stateRef' = next
           /\ storage' = e.st
           /\ hooks' = e.hk
           /\ last' = Op("revert", 0, "", NoMutation, FALSE, FALSE, <<>>,
                         e.called)
           /\ owned' = Parted(owned, {p.key : p \in Range(held.inv)})
           /\ UNCHANGED otherVars
           /\ UNCHANGED <<call, stateValue, subscribers, uidCount, made, held,
                          handles>>

\* First render of consumer c with derivation function fn: the hook body
\* up to and including useSyncExternalStore's first getSnapshot.
Render(c, fn) ==
    /\ hooks[c].pc = "idle"
    /\ uidCount + 3 <= 1 + 3 * MaxHooks
    /\ LET h == [NoHook EXCEPT !.pc = "rendered", !.fn = fn,
                               !.sid = made[c] + 1]
           hk == [hooks EXCEPT ![c] = h]
           v == IF HookOf(c) = "useStateValue"
                THEN validateComputeFunctionPurity(storage, hk, c,
                                                   getStateValue(stateRef))
                ELSE [st |-> storage, threw |-> FALSE]
           r == getSnapshot(v.st, hk, c, stateRef)
       IN  /\ uidCount' = uidCount + 3
           /\ IF v.threw
              THEN /\ storage' = v.st
                   /\ hooks' = hooks
              ELSE /\ storage' = r.st
                   /\ hooks' = [hk EXCEPT ![c].snap = r.out]
           /\ made' = [made EXCEPT ![c] = @ + 1]
           /\ last' = Op("render", c, fn, NoMutation, v.threw, FALSE, <<>>,
                         NoneNotified)
    /\ UNCHANGED otherVars
    /\ UNCHANGED <<call, stateValue, stateRef, subscribers, held, callerVars>>

\* The effects after the first commit, in hook order: the useEffect of the
\* hook (which calls clearCache at once), then useSyncExternalStore's
\* subscribe and its check of the snapshot.
Mount(c) ==
    /\ hooks[c].pc = "rendered"
    /\ LET cleared == clear(storage, <<stateInstance(c, hooks[c])>>)
           r == getSnapshot(cleared, hooks, c, stateRef)
       IN  /\ storage' = r.st
           /\ subscribers' = IF c \in Range(subscribers) THEN subscribers
                             ELSE Append(subscribers, c)
           /\ hooks' = [hooks EXCEPT ![c].pc = "mounted", ![c].snap = r.out,
                                     ![c].dirty = FALSE]
           /\ last' = Op("mount", c, hooks[c].fn, NoMutation, FALSE, FALSE,
                         <<>>, NoneNotified)
    /\ UNCHANGED otherVars
    /\ UNCHANGED <<call, stateValue, stateRef, uidCount, made, held,
                   callerVars>>

\* A later render of a mounted consumer: the hook body again.
Rerender(c) ==
    /\ hooks[c].pc = "mounted"
    /\ LET v == IF HookOf(c) = "useStateValue"
                THEN validateComputeFunctionPurity(storage, hooks, c,
                                                   getStateValue(stateRef))
                ELSE [st |-> storage, threw |-> FALSE]
           r == getSnapshot(v.st, hooks, c, stateRef)
       IN  /\ IF v.threw
              THEN /\ storage' = v.st
                   /\ hooks' = [hooks EXCEPT ![c] = NoHook]
                   /\ subscribers' = Remove(subscribers, c)
              ELSE /\ storage' = r.st
                   /\ hooks' = [hooks EXCEPT ![c].snap = r.out,
                                             ![c].dirty = FALSE]
                   /\ subscribers' = subscribers
           /\ last' = Op("rerender", c, hooks[c].fn, NoMutation,
                         v.threw, FALSE, <<>>,
                         NoneNotified)
    /\ UNCHANGED otherVars
    /\ UNCHANGED <<call, stateValue, stateRef, uidCount, made, held,
                   callerVars>>

\* Unmount: useSyncExternalStore unsubscribes; the hook's useEffect returned
\* no cleanup function.
Unmount(c) ==
    /\ hooks[c].pc = "mounted"
    /\ subscribers' = Remove(subscribers, c)
    /\ hooks' = [hooks EXCEPT ![c] = NoHook]
    /\ last' = Op("unmount", c, hooks[c].fn, NoMutation, FALSE, FALSE, <<>>,
                  NoneNotified)
    /\ UNCHANGED otherVars
    /\ UNCHANGED <<storage, call, stateValue, stateRef, uidCount, made, held,
                   callerVars>>

\* nothing constructed yet: no window.__CONTEXT_STATE__, no manager, no
\* Provider element
NoProbe == [op |-> "init", m |-> 0, pos |-> 0, threw |-> FALSE,
            out |-> [t |-> "undef", v |-> 0]]

NoInstances ==
    /\ persistent = FALSE
    /\ window = <<>>
    /\ managers = <<>>
    /\ providers = <<>>
    /\ contexts = 0
    /\ uses = 0
    /\ probe = NoProbe

\* no helper called, no StateSynchronizer rendered
NoHelperCall == heap = <<>> /\ args = <<>> /\ outcome = <<>>
NoSynchronizer == sync = <<>>

\* no component calls useEventListener and nothing calls emitEvent
NoEvents ==
    /\ listeners = <<>>
    /\ listenerHooks = <<>>
    /\ invocations = <<>>
    /\ emissions = <<>>
    /\ aborted = {}
    /\ symbols = 0
    /\ did = <<>>

NoCall == [op |-> "init", input |-> NoValue, id |-> "", keys |-> <<>>,
           out |-> NoValue, dropped |-> 0]

States == UNION {[D -> UNION {FieldVals(k) : k \in Fields}] : D \in SUBSET Fields}

\* the states a Provider can start from
TypedStates == {S \in States : \A k \in DOMAIN S : S[k] \in FieldVals(k)}

ManagerFields(initialStates) ==
    /\ storage = <<>>
    /\ call = NoCall
    /\ stateValue \in initialStates
    /\ stateRef = stateValue
    /\ subscribers = <<>>
    /\ hooks = [c \in Consumers |-> NoHook]
    /\ uidCount = 1
    /\ made = [c \in Consumers |-> 0]
    /\ held = NoClosure
    /\ handles = {}
    /\ owned = NoneOwned
    /\ last = Op("init", 0, "", NoMutation, FALSE, FALSE, <<>>, NoneNotified)

\* one state manager with one Provider, in a tree with nothing else
ManagerInit(initialStates) ==
    /\ ManagerFields(initialStates)
    /\ NoInstances
    /\ NoHelperCall
    /\ NoSynchronizer
    /\ NoEvents

----------------------------------------------------------------------------
(* The update engine on its own: every state, every mutation descriptor    *)

\* the states a Provider starts from: no initialState, or one
InitialStates ==
    {<<>>,
     [k \in {"count", "name"} |-> IF k = "count" THEN Num(0) ELSE Str("a")]}

PartialMaps ==
    {map \in TypedStates :
        /\ DOMAIN map \in {{}, {"count"}, {"name"}, {"tags"},
                           {"count", "name"}}
        /\ "count" \in DOMAIN map => map["count"] \in {Num(0), Num(10)}}

Mutations ==
    {Partial(map) : map \in PartialMaps}
        \cup {Assign("count", Num(5)), Assign("name", Str("b")),
              Assign("tags", SetOf({1}))}
        \cup {Delete(k) : k \in Fields}
        \cup {SetAdd("tags", 2)}

StateInit == ManagerInit(InitialStates)

StateNext ==
    \/ \E m \in Mutations, keep \in BOOLEAN : SetState(m, keep)
    \/ Revert

SpecState == StateInit /\ [][StateNext]_vars

----------------------------------------------------------------------------
(* The state manager with its consumers                                    *)

ManagerStates ==
    {[k \in Fields |-> IF k = "count" THEN Num(0)
                       ELSE IF k = "name" THEN Str("a") ELSE SetOf({1})]}

ManagerMutations ==
    {Assign("count", Num(5)), Assign("name", Str("b"))}

\* the derivation function each consumer may be rendered with
ComputesOf(c) ==
    IF c = 1 THEN {"count", "identity"} ELSE {"name", "newObj", "random"}

MgrInit == ManagerInit(ManagerStates)

MgrNext ==
    \/ \E c \in Consumers : \E fn \in ComputesOf(c) : Render(c, fn)
    \/ \E c \in Consumers : Mount(c)
    \/ \E c \in Consumers : Rerender(c)
    \/ \E c \in Consumers : Unmount(c)
    \/ \E m \in ManagerMutations : SetState(m, TRUE)
    \/ Revert

SpecManager == MgrInit /\ [][MgrNext]_vars

----------------------------------------------------------------------------
(* The cache storage on its own: any caller                                *)

\* The slots <<id, path>> the callers use.  Ids and path keys are kept
\* apart, as createStateManager keeps them apart (ids: getSnapshotFunction,
\* 'computeFunction', ...; path key: stateInstance).
Slots == {<<"id", <<>>>>, <<"id", <<"k1">>>>, <<"id", <<"k1", "k2">>>>}
ClearPaths == {<<>>, <<"k1">>, <<"k1", "k2">>, <<"k2">>, <<"k2", "k1">>}

SlotPos(slot) == Append(slot[2], slot[1])

CachePrims == {Undef, Num(0)}
CacheObjs == {SetOf({1}), SetOf({2}), Arr(<<1>>)}

\* the values a caller can pass for a slot: a primitive, a new object, or
\* the very object the slot holds
CacheInputs(st, pos) ==
    {Prim(x) : x \in CachePrims}
        \cup {Ref(FreshRef(StoredRefs(st)), x) : x \in CacheObjs}
        \cup {Stored(st[p]) :
                p \in {q \in LeafPositions(st) \cap {pos} : st[q].ref > 0}}

CacheCall ==
    \E slot \in Slots :
      \E input \in CacheInputs(storage, SlotPos(slot)) :
        LET r == cache(storage, input, slot[1], slot[2])
        IN  /\ storage' = r.st
            /\ call' = [op |-> "cache", input |-> input, id |-> slot[1],
                        keys |-> slot[2], out |-> r.out, dropped |-> 0]
            /\ UNCHANGED managerVars

ClearCall ==
    \E keys \in ClearPaths :
        /\ storage' = clear(storage, keys)
        /\ call' = [op |-> "clear", input |-> NoValue, id |-> "",
                    keys |-> keys, out |-> NoValue,
                    dropped |-> Cardinality(LeafPositions(storage))
                        - Cardinality(LeafPositions(clear(storage, keys)))]
        /\ UNCHANGED managerVars

CacheInit == ManagerInit({<<>>})

CacheNext == CacheCall \/ ClearCall

SpecCache == CacheInit /\ [][CacheNext]_vars

----------------------------------------------------------------------------
(* Claims about the cache storage (checked under SpecCache)                *)

CallPos(c) == Append(c.keys, c.id)

\* what the storage has at a position, if anything
Absent == [kind |-> "absent", ref |-> 0, val |-> Undef]
NodeAt(st, pos) == IF pos \in DOMAIN st THEN st[pos] ELSE Absent

HoldsValue(st, pos) ==
    pos \in DOMAIN st /\ st[pos].kind = "leaf" /\ st[pos].val # Undef

\* C6: cache hit keeps the reference.  When the slot already holds a value
\* and cache is called with a structurally equal value that is a distinct
\* object, the call returns the stored (old) reference and the slot is left
\* as it was; this holds for every call, so for any number of repeats.
C6_CacheHitKeepsReference ==
    [][(/\ call'.op = "cache"
        /\ HoldsValue(storage, CallPos(call'))
        /\ StructEq(Stored(storage[CallPos(call')]), call'.input)
        /\ call'.input.ref # storage[CallPos(call')].ref)
       => (/\ call'.out = Stored(storage[CallPos(call')])
           /\ NodeAt(storage', CallPos(call')) = storage[CallPos(call')])]_vars

\* a call that returned the stored array although it was handed another one
C6_Witness ==
    /\ call.op = "cache"
    /\ call.input.val = Arr(<<1>>)
    /\ call.out.val = Arr(<<1>>)
    /\ call.input.ref > 0
    /\ call.out.ref > 0
    /\ call.out.ref # call.input.ref
    /\ NodeAt(storage, CallPos(call)) = Leaf(call.out)

\* C7 as claimed: on an empty slot cache stores v and returns v; on a slot
\* whose stored value is not structurally equal to v it overwrites the slot
\* with v and returns v; after every call the slot holds exactly the
\* reference the call returned.
C7_MissAndOverwrite ==
    [][(call'.op = "cache" /\ call'.out # TypeError)
       => (/\ CallPos(call') \notin DOMAIN storage
                => (/\ call'.out = call'.input
                    /\ NodeAt(storage', CallPos(call')) = Leaf(call'.input))
           /\ (/\ CallPos(call') \in DOMAIN storage
               /\ ~StructEq(Stored(storage[CallPos(call')]), call'.input))
                => (/\ call'.out = call'.input
                    /\ NodeAt(storage', CallPos(call')) = Leaf(call'.input))
           /\ NodeAt(storage', CallPos(call')) = Leaf(call'.out))]_vars

\* C8: clear(k1, ..., kn), n >= 1, removes the whole subtree at that path:
\* afterwards nothing is stored under the path, so a cache call on any slot
\* under it is a miss and returns its own input, while each slot outside the
\* path keeps its stored reference and still returns it on a hit.
C8_ClearRemovesSubtree ==
    [][(call'.op = "clear" /\ Len(call'.keys) >= 1)
       => (/\ \A p \in DOMAIN storage' : ~IsPrefix(call'.keys, p)
           /\ \A slot \in Slots :
                IF IsPrefix(call'.keys, SlotPos(slot))
                THEN \A x \in CachePrims \cup CacheObjs :
                        LET input == Ref(FreshRef(StoredRefs(storage')), x)
                        IN  cache(storage', input, slot[1], slot[2]).out
                                = input
                ELSE HoldsValue(storage, SlotPos(slot))
                        => LET old == Stored(storage[SlotPos(slot)])
                               again == Ref(FreshRef(StoredRefs(storage')),
                                            old.val)
                           IN  /\ NodeAt(storage', SlotPos(slot))
                                    = storage[SlotPos(slot)]
                               /\ cache(storage', again, slot[1],
                                        slot[2]).out = old)]_vars

\* a clear of a nested path that removed a stored value and kept another
C8_Witness ==
    /\ call.op = "clear"
    /\ call.keys = <<"k1", "k2">>
    /\ call.dropped = 1
    /\ HoldsValue(storage, <<"k1", "id">>)
    /\ HoldsValue(storage, <<"id">>)
    /\ <<"k1", "k2">> \notin DOMAIN storage

\* C9 as claimed: clear() with no keys drops everything; afterwards no slot
\* of the storage holds a value.
C9_ClearAllDropsEverything ==
    [][(call'.op = "clear" /\ Len(call'.keys) = 0)
       => \A p \in DOMAIN storage' : ~HoldsValue(storage', p)]_vars

----------------------------------------------------------------------------
(* Claims about the update engine (checked under SpecState)                *)

\* C1 as claimed: the round-trip law.  For every state S and every mutation
\* descriptor M, setState(M) followed at once by the revert closure it
\* returned leaves a State structurally equal to S.
C1_RoundTrip ==
    [][(/\ last'.op = "revert"
        /\ last.op = "setState" /\ last.kept /\ ~last.threw)
       => stateRef' = last.base]_vars

\* C5: a partial-mapping update changes exactly the top-level fields named
\* in the mapping: each named field takes the mapping's value, and every
\* other field of the previous State is still there with an equal value.
C5_PartialMappingFrame ==
    [][(last'.op = "setState" /\ last'.m.kind = "partial" /\ ~last'.threw)
       => (/\ DOMAIN stateRef' = DOMAIN stateRef \cup DOMAIN last'.m.map
           /\ \A k \in DOMAIN stateRef' :
                stateRef'[k] = IF k \in DOMAIN last'.m.map
                               THEN last'.m.map[k] ELSE stateRef[k])]_vars

\* {count: 0, name: "a"} updated with {count: 10} is {count: 10, name: "a"}
C5_Witness ==
    /\ last.op = "setState"
    /\ ~last.threw
    /\ last.m = Partial([k \in {"count"} |-> Num(10)])
    /\ last.base = [k \in {"count", "name"} |->
                        IF k = "count" THEN Num(0) ELSE Str("a")]
    /\ stateRef = [k \in {"count", "name"} |->
                        IF k = "count" THEN Num(10) ELSE Str("a")]

----------------------------------------------------------------------------
(* Claims about the consumers (checked under SpecManager)                  *)

HasSnapshot(h) == h.snap # NoValue

\* C2 as claimed: memoization stability.  Two consecutive snapshot requests
\* of one consumer with no setState or revert between them return
\* reference-equal results.
C2_MemoizationStability ==
    [][\A c \in Consumers :
        (/\ last'.op \in {"mount", "rerender"} /\ last'.c = c
         /\ ~last'.threw
         /\ HasSnapshot(hooks[c]) /\ ~hooks[c].dirty)
        => StrictEq(hooks'[c].snap, hooks[c].snap)]_vars

\* C3: a selector of a field that holds a primitive reflects the State: the
\* snapshot a consumer took after the last committed setState or revert is
\* the field's value in the current State (5 after draft.count = 5 on
\* {count: 0}, 0 again after the revert closure ran).
C3_SnapshotReflectsState ==
    \A c \in Consumers :
        (/\ HasSnapshot(hooks[c]) /\ ~hooks[c].dirty
         /\ hooks[c].fn \in {"count", "name"})
        => hooks[c].snap = Prim(compute(hooks[c].fn, stateRef, 3))

\* the revert of draft.count = 5 has run and the count selector reads 0
C3_Witness ==
    /\ last.op = "revert"
    /\ held.inv = <<Patch("replace", "count", "", Num(0))>>
    /\ hooks[1].pc = "mounted"
    /\ hooks[1].fn = "count"
    /\ last.notified[1] = 1
    /\ stateRef["count"] = Num(0)
    /\ hooks[1].snap = Prim(Num(0))

\* C4: the registry does not filter, the cache does.  A setState or revert
\* invokes every registered callback once, and a consumer whose computed
\* value is structurally the same before and after the mutation gets the
\* same reference as its previous snapshot.
C4_NotifyAllKeepReference ==
    [][(last'.op \in {"setState", "revert"} /\ ~last'.threw)
       => \A c \in Consumers :
            IF c \in Range(subscribers)
            THEN /\ last'.notified[c] = 1
                 /\ StructEq(Prim(compute(hooks[c].fn, stateRef', 3)),
                             Prim(compute(hooks[c].fn, stateRef, 3)))
                      => StrictEq(hooks'[c].snap, hooks[c].snap)
            ELSE last'.notified[c] = 0]_vars

\* a count selector and a name selector are subscribed, a mutation changed
\* only name, and both callbacks were invoked
C4_Witness ==
    /\ last.op = "setState"
    /\ last.m = Assign("name", Str("b"))
    /\ last.base["name"] = Str("a")
    /\ hooks[1].pc = "mounted" /\ hooks[1].fn = "count"
    /\ hooks[2].pc = "mounted" /\ hooks[2].fn = "name"
    /\ last.notified = [c \in Consumers |-> 1]
    /\ hooks[2].snap = Prim(Str("b"))
    /\ hooks[1].snap = Prim(stateRef["count"])

IsValidation(op) ==
    op.op \in {"render", "rerender"} /\ HookOf(op.c) = "useStateValue"

\* C10 as claimed: purity validation throws for a derivation function that
\* returns a new object on each call, such as () => ({}).
C10_NewObjectFails ==
    (IsValidation(last) /\ last.fn = "newObj") => last.threw

\* C10 amended: purity validation does not throw for () => ({}); the two
\* results are deep-equal, so the second cache call returns the reference
\* the first one returned.
C10_NewObjectPasses ==
    (IsValidation(last) /\ last.fn = "newObj") => ~last.threw

\* useStateValue(() => ({})) rendered: validation passed and left {} in the
\* consumer's 'computeFunction' slot
C10_Witness ==
    /\ last.op = "render"
    /\ last.c = 2
    /\ last.fn = "newObj"
    /\ ~last.threw
    /\ hooks[2].pc = "rendered"
    /\ HoldsValue(storage,
                  <<stateInstance(2, hooks[2]), "computeFunction">>)
    /\ storage[<<stateInstance(2, hooks[2]), "computeFunction">>].val
            = EmptyObj

----------------------------------------------------------------------------
(* The purity validator on its own: useStateValue(s => s.count) and        *)
(* useStateValue(s => s.name) over states whose fields are absent, a       *)
(* number, a string or NaN                                                 *)

ValidatorStates ==
    {<<>>,
     [k \in {"count", "name"} |-> IF k = "count" THEN Num(0) ELSE Str("a")]}

ValidatorMutations ==
    {Assign("count", Num(0)), Assign("count", Num(5)), Assign("count", NaN),
     Assign("name", Str("b"))}

ValidatorInit == ManagerInit(ValidatorStates)

ValidatorNext ==
    \/ \E fn \in {"count", "name"} : Render(2, fn)
    \/ Mount(2)
    \/ Rerender(2)
    \/ Unmount(2)
    \/ \E m \in ValidatorMutations : SetState(m, FALSE)

SpecValidator == ValidatorInit /\ [][ValidatorNext]_vars

\* C11: purity validation does not throw for a stable derivation such as
\* s => s.count, for every state and whatever the validator's cache slot
\* held before: every render of useStateValue with a field derivation gets
\* past validateComputeFunctionPurity.
C11_StableDerivationPasses ==
    [][(/\ last'.op \in {"render", "rerender"}
        /\ HookOf(last'.c) = "useStateValue"
        /\ last'.fn \in Fields)
       => ~last'.threw]_vars

----------------------------------------------------------------------------
(* The subscription registry with arbitrary callbacks.  subscribers.current *)
(* is a JavaScript Set and emitChanges walks it with for...of: the walk     *)
(* is live.  The Set keeps its entries in a list in insertion order;        *)
(* delete leaves a hole where the entry was, add appends an entry that is   *)
(* not there, and the walk goes on until the end of the list as it is then. *)

MaxSubscribers == 2     \* callbacks the caller registers at a time
MaxRepeats == 3         \* invocations of one callback a pass is followed for

\* The callbacks.  Each reads the state when it is invoked, and then:
\*   reader   () => {}
\*   reenter  () => { if (state.name === 'a') setState({name: 'b'}) }
\*   joiner   () => { subscribe(reader) }
\*   leaver   () => { unsubscribe itself }
\*   remover  () => { unsubscribe reader }
\*   thrower  () => { throw ... }
\*   rejoiner () => { unsubscribe itself; subscribe(rejoiner) }
Callbacks == {"reader", "reenter", "joiner", "leaver", "remover", "thrower"}

\* the hole a deleted entry leaves in the Set's list
Empty == ""

Compact(slots) == SelectSeq(slots, LAMBDA x : x # Empty)

\* subscribers.current.add(callback)
subscribe(slots, cb) ==
    IF cb \in Range(slots) THEN slots ELSE Append(slots, cb)

\* unsubscribe that takes the last entry when the callback is not there
unsubscribeOrLast(slots, cb) ==
    IF cb \in Range(slots)
    THEN [i \in 1..Len(slots) |-> IF slots[i] = cb THEN Empty ELSE slots[i]]
    ELSE [i \in 1..Len(slots) |-> IF i = Len(slots) THEN Empty ELSE slots[i]]

\* the function subscribe returns: subscribers.current.delete(callback)
unsubscribe(slots, cb) ==
    [i \in 1..Len(slots) |-> IF slots[i] = cb THEN Empty ELSE slots[i]]

\* what happens during one setState / revert call, in order:
\*   commit  stateRef.current is assigned; pass is the pass it starts
\*   call    callback cb is invoked in that pass and reads state
\*   end     the for...of of that pass ran to its end
Ev(kind, cb, pass, state) ==
    [ev |-> kind, cb |-> cb, pass |-> pass, state |-> state]

\* the run of one call: the Set's list, stateRef.current, the events so
\* far, whether an exception is on its way up, the passes started, and
\* whether a for...of was left running (it invoked one callback MaxRepeats
\* times and still had that entry ahead of it)
Ctx(slots, state) ==
    [slots |-> slots, state |-> state, log |-> <<>>, threw |-> FALSE,
     passes |-> 0, stuck |-> FALSE]

RECURSIVE emitChangesLive(_, _, _)
RECURSIVE invoke(_, _, _)
RECURSIVE commitAndNotify(_, _)

\* the outermost call notifying first and assigning stateRef.current after
notifyThenCommit(ctx, next) ==
    LET pass == ctx.passes + 1
        early == ctx.passes = 0
        begun == [ctx EXCEPT !.state = IF early THEN @ ELSE next,
                             !.passes = pass,
                             !.log = IF early THEN @
                                     ELSE Append(@, Ev("commit", "", pass,
                                                       next))]
        done == emitChangesLive(begun, pass, 1)
        late == [done EXCEPT !.state = IF early THEN next ELSE @,
                             !.log = IF early
                                     THEN Append(@, Ev("commit", "", pass,
                                                       next))
                                     ELSE @]
    IN  IF done.threw THEN late
        ELSE [late EXCEPT
                !.log = Append(@, Ev("end", "", pass, late.state))]

\* stateRef.current = next; emitChanges()
commitAndNotify(ctx, next) ==
    LET pass == ctx.passes + 1
        begun == [ctx EXCEPT !.state = next, !.passes = pass,
                             !.log = Append(@, Ev("commit", "", pass, next))]
        done == emitChangesLive(begun, pass, 1)
    IN  IF done.threw \/ done.stuck THEN done
        ELSE [done EXCEPT
                !.log = Append(@, Ev("end", "", pass, done.state))]

\* subscribeCallback()
invoke(ctx, pass, cb) ==
    LET seen == [ctx EXCEPT
                   !.log = Append(@, Ev("call", cb, pass,
                                        getStateValue(ctx.state)))]
    IN  IF cb = "reenter"
        THEN IF "name" \in DOMAIN seen.state /\ seen.state["name"] = Str("a")
             THEN commitAndNotify(seen,
                    Spread(seen.state,
                           produceWithPatches(seen.state,
                               Partial([k \in {"name"} |-> Str("b")])).st))
             ELSE seen
        ELSE IF cb = "joiner"
        THEN [seen EXCEPT !.slots = subscribe(@, "reader")]
        ELSE IF cb = "leaver"
        THEN [seen EXCEPT !.slots = unsubscribe(@, "leaver")]
        ELSE IF cb = "remover"
        THEN [seen EXCEPT !.slots = unsubscribe(@, "reader")]
        ELSE IF cb = "thrower"
        THEN [seen EXCEPT !.threw = TRUE]
        ELSE IF cb = "rejoiner"
        THEN [seen EXCEPT !.slots = subscribe(unsubscribe(@, "rejoiner"),
                                              "rejoiner")]
        ELSE seen

\* emitChanges(): for (const subscribeCallback of subscribers.current),
\* from entry i of the list on
emitChangesLive(ctx, pass, i) ==
    IF ctx.threw \/ ctx.stuck \/ i > Len(ctx.slots) THEN ctx
    ELSE IF ctx.slots[i] = Empty THEN emitChangesLive(ctx, pass, i + 1)
    ELSE IF Cardinality({j \in DOMAIN ctx.log :
                            /\ ctx.log[j].ev = "call"
                            /\ ctx.log[j].pass = pass
                            /\ ctx.log[j].cb = ctx.slots[i]}) >= MaxRepeats
    THEN [ctx EXCEPT !.stuck = TRUE]
    ELSE emitChangesLive(invoke(ctx, pass, ctx.slots[i]), pass, i + 1)

\* the record of a registry operation; out: what an unsubscribe function
\* returned (Set.prototype.delete tells whether the entry was there); base:
\* the State before a revert
RegOp(op, cb, threw, out, base, log) ==
    [op |-> op, cb |-> cb, threw |-> threw, out |-> out, base |-> base,
     log |-> log]

\* subscribe(callback); the caller keeps the function returned
Subscribe(cb) ==
    /\ cb \in Range(subscribers) \/ Len(subscribers) < MaxSubscribers
    /\ subscribers' = subscribe(subscribers, cb)
    /\ handles' = handles \cup {cb}
    /\ last' = RegOp("subscribe", cb, FALSE, FALSE, <<>>, <<>>)
    /\ UNCHANGED otherVars
    /\ UNCHANGED <<storage, call, stateValue, stateRef, hooks, uidCount, made,
                   held, owned>>

\* the caller calls an unsubscribe function it holds, for the first time or
\* once more; it keeps the function it called, and lets go of the others
\* whose callback is not registered
Unsubscribe(cb) ==
    /\ cb \in handles
    /\ subscribers' = Compact(unsubscribe(subscribers, cb))
    /\ handles' = (handles \cap Range(subscribers')) \cup {cb}
    /\ last' = RegOp("unsubscribe", cb, FALSE, cb \in Range(subscribers),
                     <<>>, <<>>)
    /\ UNCHANGED otherVars
    /\ UNCHANGED <<storage, call, stateValue, stateRef, hooks, uidCount, made,
                   held, owned>>

\* setState(updater) with these callbacks registered (SetState above is the
\* same handler with the callbacks React registers).  An exception of a
\* callback leaves setState before it returns the revert closure.
SetStateLive(m, keep) ==
    LET r == produceWithPatches(stateRef, m)
        c == commitAndNotify(Ctx(subscribers, stateRef),
                             Spread(stateRef, r.st))
    IN  /\ ~r.threw
        /\ stateRef' = c.state
        /\ subscribers' = Compact(c.slots)
        /\ held' = IF keep /\ ~c.threw /\ ~c.stuck
                   THEN [live |-> TRUE, inv |-> r.inv]
                   ELSE held
        /\ last' = RegOp("setState", "", c.threw, FALSE, <<>>, c.log)
        /\ owned' = Parted(owned, KeysOf(m))
        /\ UNCHANGED otherVars
        /\ UNCHANGED <<storage, call, stateValue, hooks, uidCount, made,
                       handles>>

\* revertChanges() of the closure the caller holds, with these callbacks
RevertLive ==
    /\ held.live
    /\ LET reverted == applyPatches(stateRef, held.inv)
           c == commitAndNotify(Ctx(subscribers, stateRef),
                                Spread(stateRef, reverted))
       IN  /\ stateRef' = c.state
           /\ subscribers' = Compact(c.slots)
           /\ last' = RegOp("revert", "", c.threw, FALSE, stateRef, c.log)
           /\ owned' = Parted(owned, {p.key : p \in Range(held.inv)})
           /\ UNCHANGED otherVars
           /\ UNCHANGED <<storage, call, stateValue, hooks, uidCount, made,
                          held, handles>>

RegistryStates ==
    {[k \in {"count", "name"} |-> IF k = "count" THEN Num(0) ELSE Str("a")]}

RegistryMutations ==
    {Assign("count", Num(5)), Assign("count", Num(0)),
     Partial([k \in {"name"} |-> Str("a")])}

RegistryInit == ManagerInit(RegistryStates)

RegistryNext ==
    \/ \E cb \in Callbacks : Subscribe(cb)
    \/ \E cb \in Callbacks : Unsubscribe(cb)
    \/ \E m \in RegistryMutations, keep \in BOOLEAN : SetStateLive(m, keep)
    \/ RevertLive

SpecRegistry == RegistryInit /\ [][RegistryNext]_vars

----------------------------------------------------------------------------
(* Claims about the subscription registry                                  *)

\* C12: unsubscribe is idempotent.  A call of an unsubscribe function does
\* not throw and leaves every other registered callback registered, in the
\* same order; a call for a callback that is not registered (a second
\* call) leaves the registry as it is.
C12_UnsubscribeIdempotent ==
    [][last'.op = "unsubscribe"
       => /\ ~last'.threw
          /\ subscribers' = SelectSeq(subscribers, LAMBDA x : x # last'.cb)
          /\ last'.cb \notin Range(subscribers)
                => subscribers' = subscribers]_vars

\* an unsubscribe function was called for a callback that was no longer
\* registered, while other callbacks were
C12_Witness ==
    /\ last.op = "unsubscribe"
    /\ ~last.out
    /\ Len(subscribers) >= 2
    /\ last.cb \in handles

EventsAt(log, kind) == {i \in DOMAIN log : log[i].ev = kind}

\* how often callback cb was invoked in pass q
Invocations(log, q, cb) ==
    Cardinality({i \in EventsAt(log, "call") :
                    log[i].pass = q /\ log[i].cb = cb})

\* C14: a setState made by a callback during a notification pass is
\* processed only after that pass has completed (its commit comes after the
\* end of every pass started before it), and every registered callback is
\* invoked exactly once for each committed mutation.  Stated for registries
\* whose callbacks only read the state or call setState.
C14_ReentrantDeferred ==
    [][(/\ last'.op \in {"setState", "revert"}
        /\ Range(subscribers) \subseteq {"reader", "reenter"})
       => LET log == last'.log
          IN  /\ \A j \in EventsAt(log, "commit") :
                    \A q \in 1..(log[j].pass - 1) :
                        \E i \in EventsAt(log, "end") :
                            i < j /\ log[i].pass = q
              /\ \A j \in EventsAt(log, "commit") :
                    \A cb \in Range(subscribers) :
                        Invocations(log, log[j].pass, cb) = 1]_vars

\* C15: a notification pass iterates a snapshot of the registry.  The pass
\* of a setState or revert call in which no callback throws invokes exactly
\* the callbacks registered when the pass began, each once, also when
\* callbacks subscribe or unsubscribe during the pass.
C15_PassIteratesSnapshot ==
    [][(last'.op \in {"setState", "revert"} /\ ~last'.threw)
       => \A cb \in Callbacks :
            Invocations(last'.log, 1, cb) =
                IF cb \in Range(subscribers) THEN 1 ELSE 0]_vars

\* the last commit before position i of a log (0: none)
LastCommitBefore(log, i) ==
    IF \E j \in EventsAt(log, "commit") : j < i
    THEN CHOOSE j \in EventsAt(log, "commit") :
            j < i /\ \A k \in EventsAt(log, "commit") : k < i => k <= j
    ELSE 0

\* C16: notification happens only after commit.  A callback invoked because
\* of a setState or revert call is invoked after that call has assigned the
\* State, and what it reads is the committed State, whole: the State of the
\* latest assignment.  When no callback calls setState itself, that is the
\* updated State of the call, for every callback of the pass.
C16_NotifyAfterCommit ==
    [][last'.op \in {"setState", "revert"}
       => LET log == last'.log
          IN  /\ \A i \in EventsAt(log, "call") :
                    LET j == LastCommitBefore(log, i)
                    IN  /\ j > 0
                        /\ log[j].pass >= log[i].pass
                        /\ log[i].state = log[j].state
              /\ "reenter" \notin Range(subscribers)
                    => \A i \in EventsAt(log, "call") :
                            log[i].state = stateRef']_vars

\* a revert changed the State and the two registered callbacks read the
\* reverted State
C16_Witness ==
    /\ last.op = "revert"
    /\ ~last.threw
    /\ last.base # stateRef
    /\ Len(subscribers) = 2
    /\ "reenter" \notin Range(subscribers)
    /\ Cardinality(EventsAt(last.log, "call")) = 2
    /\ \A i \in EventsAt(last.log, "call") : last.log[i].state = stateRef

\* C17: a callback that throws does not abort the batch.  When thrower is
\* registered next to callbacks that only read the state, the pass of a
\* setState or revert call still invokes every other registered callback.
C17_ThrowIsolated ==
    [][(/\ last'.op \in {"setState", "revert"}
        /\ "thrower" \in Range(subscribers)
        /\ Range(subscribers) \subseteq {"thrower", "reader"})
       => \A cb \in Range(subscribers) :
            Invocations(last'.log, 1, cb) = 1]_vars

----------------------------------------------------------------------------
(* Revert with a subscriber: every state and mutation descriptor of the    *)
(* update engine, and one callback that reads the state                    *)

RevertNext ==
    \/ Subscribe("reader")
    \/ \E m \in Mutations, keep \in BOOLEAN : SetStateLive(m, keep)
    \/ RevertLive

SpecRevert == StateInit /\ [][RevertNext]_vars

\* the inverse patches of a closure that concern key k
PatchesOn(inv, k) == {inv[i] : i \in {j \in DOMAIN inv : inv[j].key = k}}

\* what a revert leaves under key k of the State cur: the value a replace
\* or add patch carries; the Set without the element a nested remove patch
\* names; else what cur has (the merge keeps a key a remove patch names)
RevertedValue(cur, inv, k) ==
    IF \E p \in PatchesOn(inv, k) : p.sub = "" /\ p.op # "remove"
    THEN (CHOOSE p \in PatchesOn(inv, k) : p.sub = "" /\ p.op # "remove").value
    ELSE IF \E p \in PatchesOn(inv, k) : p.sub # "" /\ cur[k].t = "set"
    THEN SetOf(cur[k].v \ {(CHOOSE p \in PatchesOn(inv, k) : p.sub # "").value.v})
    ELSE cur[k]

\* C18: a revert closure applies its inverse patches to the State that is
\* current when it is called, whatever happened since its update, commits
\* the result merged over that State, and then notifies: the first event of
\* the call is the commit of exactly that State, and the registered
\* callback is invoked after it and reads it.
C18_RevertOnCurrentState ==
    [][last'.op = "revert"
       => LET log == last'.log
              restored == {p.key : p \in {q \in Range(held.inv) :
                                            q.sub = "" /\ q.op # "remove"}}
          IN  /\ log[1].ev = "commit"
              /\ DOMAIN log[1].state = DOMAIN stateRef \cup restored
              /\ \A k \in DOMAIN log[1].state :
                    log[1].state[k] = RevertedValue(stateRef, held.inv, k)
              /\ stateRef' = log[1].state
              /\ \A cb \in Range(subscribers) :
                    \E i \in EventsAt(log, "call") :
                        /\ i > 1
                        /\ log[i].cb = cb
                        /\ log[i].state = log[1].state]_vars

\* the closure of setState({count: 10, name: 'b'}) on {count: 0, name: 'a'}
\* was called after count had been set back to 0 by a later mutation: the
\* revert restored name on that State, and the subscriber read the result
C18_Witness ==
    /\ last.op = "revert"
    /\ Range(held.inv) = {Patch("replace", "count", "", Num(0)),
                          Patch("replace", "name", "", Str("a"))}
    /\ last.base["count"] = Num(0)
    /\ last.base["name"] = Str("b")
    /\ stateRef = [last.base EXCEPT !["name"] = Str("a")]
    /\ subscribers = <<"reader">>
    /\ \E i \in EventsAt(last.log, "call") : last.log[i].state = stateRef

----------------------------------------------------------------------------
(* The imperative getSnapshot (useSnapshot) and the caller's own objects   *)

\* getSnapshot reading the module-level stateValue, as getServerSnapshot
\* does, not the live State
getClonedStateSnapshotBaseline(fn) ==
    compute(fn, getStateValue(stateValue), 3)

\* getClonedStateSnapshot(compute): compute on context.getStateValue()
getClonedStateSnapshot(fn) == compute(fn, getStateValue(stateRef), 3)

\* the State keys whose value a derivation function hands to the caller
Exposed(fn, state) ==
    IF fn = "identity" THEN DOMAIN state ELSE {fn} \cap DOMAIN state

\* the record of something the caller does outside setState and revert
CallerOp(op, fn, key, out) ==
    [op |-> op, fn |-> fn, key |-> key, out |-> out]

\* const v = getSnapshot(fn): the caller now holds the objects in v.  An
\* object of the State that deepClone hands back as it is, is the State's
\* own; any other is a copy.
GetSnapshot(fn) ==
    /\ last' = CallerOp("getSnapshot", fn, "", getClonedStateSnapshot(fn))
    /\ owned' = [k \in OwnedKeys |->
                    IF k \in Exposed(fn, stateRef)
                    THEN IF KeepsOriginal(stateRef[k]) THEN "same"
                         ELSE "apart"
                    ELSE owned[k]]
    /\ UNCHANGED otherVars
    /\ UNCHANGED <<storage, call, stateValue, stateRef, subscribers, hooks,
                   uidCount, made, held, handles>>

\* formData.append('f', ...) or formData.delete('f'); set.add(9) or
\* set.delete(9)
Mutated(x) ==
    LET e == IF x.t = "form" THEN "f" ELSE 9
    IN  [x EXCEPT !.v = IF e \in @ THEN @ \ {e} ELSE @ \cup {e}]

\* The caller mutates the object it holds for key k.  When that object is
\* the one the State holds under k, stateRef.current[k] is mutated with it;
\* nobody is notified.
Mutate(k) ==
    /\ owned[k] # "none"
    /\ stateRef' = IF owned[k] = "same"
                   THEN [stateRef EXCEPT ![k] = Mutated(@)]
                   ELSE stateRef
    /\ last' = CallerOp("mutate", "", k, Undef)
    /\ UNCHANGED otherVars
    /\ UNCHANGED <<storage, call, stateValue, subscribers, hooks, uidCount,
                   made, held, callerVars>>

SnapshotStates == {[k \in {"count"} |-> Num(0)]}

SnapshotMutations == {Assign("count", Num(5))}

\* the objects a caller passes in a partial mapping and keeps
HeldObjects == {<<"tags", SetOf({1})>>, <<"form", FormOf({})>>}

SnapshotInit == ManagerInit(SnapshotStates)

SnapshotNext ==
    \/ \E m \in SnapshotMutations : SetState(m, TRUE)
    \/ Revert
    \/ \E ko \in HeldObjects : SetStateHolding(ko[1], ko[2])
    \/ \E fn \in {"identity", "count", "tags", "form"} : GetSnapshot(fn)
    \/ \E k \in OwnedKeys : Mutate(k)
    \/ Render(1, "identity")
    \/ Mount(1)
    \/ Unmount(1)

SpecSnapshot == SnapshotInit /\ [][SnapshotNext]_vars

\* C19: the State changes only through setState and revert.  When the
\* caller mutates an object it passed as a value of a partial mapping, or
\* an object in a value the imperative getSnapshot returned, the State
\* stays as it is.
C19_OnlySetStateChangesState ==
    [][last'.op = "mutate" => stateRef' = stateRef]_vars

\* C20: the imperative getSnapshot(f?) reads the live State.  It returns f
\* of the State as committed by the latest setState or revert (the whole
\* State for no f, the field for a field derivation), whatever the State
\* was at construction and whatever the cache has memoized.
C20_SnapshotReadsLiveState ==
    [][last'.op = "getSnapshot"
       => last'.out =
            IF last'.fn = "identity" THEN Obj(stateRef)
            ELSE IF last'.fn \in DOMAIN stateRef THEN stateRef[last'.fn]
            ELSE Undef]_vars

\* getSnapshot() returned the whole current State after mutations, while
\* the cache still holds a selector's snapshot of another State
C20_Witness ==
    /\ last.op = "getSnapshot"
    /\ last.fn = "identity"
    /\ last.out = Obj(stateRef)
    /\ stateRef # stateValue
    /\ "form" \in DOMAIN stateRef
    /\ \E p \in LeafPositions(storage) :
            storage[p].val.t = "obj" /\ storage[p].val # Obj(stateRef)

----------------------------------------------------------------------------
(* Cache entries of consumers that are gone                                *)

\* the cache positions under the stateInstance identifier of hook h of
\* consumer c
SubPath(st, c, h) ==
    {p \in DOMAIN st : Len(p) > 0 /\ p[1] = stateInstance(c, h)}

\* C21: a consumer releases its cache sub-path when it stops observing.
\* After a useState or useStateValue consumer is unmounted the cache storage
\* holds no entry under that consumer's stateInstance identifier.
C21_UnmountReleasesCache ==
    [][last'.op = "unmount"
       => SubPath(storage', last'.c, hooks[last'.c]) = {}]_vars

----------------------------------------------------------------------------
(* Several createStateManager calls, several Provider elements             *)

MaxManagers == 2    \* createStateManager calls over a run
MaxProviders == 2   \* Provider elements rendered over a run
MaxUses == 1        \* useState / useStateValue instances created over a run

\* the instanceId argument: none, or a string
InstanceIds == {"", "app"}

\* a state manager: what one createStateManager call closes over
Manager(contextId, state, context, st) ==
    [contextId |-> contextId, stateValue |-> state, context |-> context,
     storage |-> st]

\* useContext taking the enclosing Provider whatever context it provides
useContextOfAny(provs, pos, context) ==
    IF pos \in DOMAIN provs THEN pos ELSE 0

\* useContext(StateHolderContext) for a component placed under Provider
\* element pos of the tree (0: under none): the value of that Provider if
\* it provides this context, else the default value of the context, null
useContext(provs, pos, context) ==
    IF pos \in DOMAIN provs /\ provs[pos].context = context THEN pos ELSE 0

useStateHolderContext(provs, pos, context) ==
    [threw |-> useContext(provs, pos, context) = 0,
     p |-> useContext(provs, pos, context)]

Probe(op, m, pos, threw, out) ==
    [op |-> op, m |-> m, pos |-> pos, threw |-> threw, out |-> out]

\* createStateManager(instanceId)
Construct(instanceId) ==
    /\ Len(managers) < MaxManagers
    /\ LET m == Len(managers) + 1
           contextId == IF instanceId # "" THEN instanceId
                        ELSE Sym(m, 0, "contextId")
           known == contextId \in DOMAIN window
           w == IF known THEN window
                ELSE [id \in DOMAIN window \cup {contextId} |->
                        IF id = contextId
                        THEN [state |-> <<>>, instance |-> contexts + 1]
                        ELSE window[id]]
       IN  /\ IF persistent
              THEN /\ window' = w
                   /\ contexts' = IF known THEN contexts ELSE contexts + 1
                   /\ managers' = Append(managers,
                                    Manager(contextId, w[contextId].state,
                                            w[contextId].instance, <<>>))
              ELSE /\ window' = window
                   /\ contexts' = contexts + 1
                   /\ managers' = Append(managers,
                                    Manager(contextId, <<>>, contexts + 1,
                                            <<>>))
           /\ probe' = Probe("construct", 0, 0, FALSE, Undef)
    /\ UNCHANGED <<coreVars, helperVars, sync, eventVars>>
    /\ UNCHANGED <<persistent, providers, uses>>

\* setInitialState(initialStateValue) of manager m
setInitialState(mgrs, m, initialStateValue) ==
    [mgrs EXCEPT ![m].stateValue = initialStateValue]

SetInitialState(m, s) ==
    /\ m \in DOMAIN managers
    /\ managers[m].stateValue # s
    /\ managers' = setInitialState(managers, m, s)
    /\ probe' = Probe("setInitialState", 0, 0, FALSE, Undef)
    /\ UNCHANGED <<coreVars, helperVars, sync, eventVars>>
    /\ UNCHANGED <<persistent, window, providers, contexts, uses>>

\* The first render of a <Provider initialState={init}> element of manager
\* m: useContextStateData.  init is undefined or an object.
RenderProvider(m, init) ==
    /\ m \in DOMAIN managers
    /\ Len(providers) < MaxProviders
    /\ LET mgrs == IF init.t = "obj" THEN setInitialState(managers, m, init.v)
                   ELSE managers
       IN  /\ managers' = mgrs
           /\ providers' = Append(providers,
                              [context |-> mgrs[m].context,
                               stateRef |-> mgrs[m].stateValue,
                               subscribers |-> {}])
    /\ probe' = Probe("provider", 0, 0, FALSE, Undef)
    /\ UNCHANGED <<coreVars, helperVars, sync, eventVars>>
    /\ UNCHANGED <<persistent, window, contexts, uses>>

\* A component under Provider element pos calls useSetState of manager m
\* and then the setter it got.
UseSetState(m, pos, mut) ==
    /\ m \in DOMAIN managers
    /\ LET ctx == useStateHolderContext(providers, pos, managers[m].context)
       IN  IF ctx.threw
           THEN /\ probe' = Probe("useSetState", m, pos, TRUE, Undef)
                /\ UNCHANGED providers
           ELSE LET r == produceWithPatches(providers[ctx.p].stateRef, mut)
                    next == Spread(providers[ctx.p].stateRef, r.st)
                IN  /\ providers' = [providers EXCEPT ![ctx.p].stateRef = next]
                    /\ probe' = Probe("useSetState", m, pos, FALSE, Undef)
    /\ UNCHANGED <<coreVars, helperVars, sync, eventVars>>
    /\ UNCHANGED <<persistent, window, managers, contexts, uses>>

\* A component under Provider element pos calls useSnapshot of manager m
\* and then the getter it got, with derivation function fn.
UseSnapshot(m, pos, fn) ==
    /\ m \in DOMAIN managers
    /\ LET ctx == useStateHolderContext(providers, pos, managers[m].context)
       IN  probe' =
             IF ctx.threw THEN Probe("useSnapshot", m, pos, TRUE, Undef)
             ELSE Probe("useSnapshot", m, pos, FALSE,
                        compute(fn, getStateValue(providers[ctx.p].stateRef),
                                1))
    /\ UNCHANGED <<coreVars, helperVars, sync, eventVars>>
    /\ UNCHANGED <<persistent, window, managers, providers, contexts, uses>>

\* A component under Provider element pos calls the hook of consumer kind c
\* (useState or useStateValue) of manager m with derivation function fn,
\* and is mounted: the hook body, then its effects.
UseHook(c, m, pos, fn) ==
    /\ m \in DOMAIN managers
    /\ \/ useStateHolderContext(providers, pos, managers[m].context).threw
       \/ uses < MaxUses
    /\ LET ctx == useStateHolderContext(providers, pos, managers[m].context)
       IN  IF ctx.threw
           THEN /\ probe' = Probe(HookOf(c), m, pos, TRUE, Undef)
                /\ UNCHANGED <<managers, providers, uses>>
           ELSE LET state == providers[ctx.p].stateRef
                    h == [NoHook EXCEPT !.pc = "rendered", !.fn = fn,
                                        !.sid = uses + 1]
                    hk == [x \in Consumers |-> IF x = c THEN h ELSE NoHook]
                    st == managers[m].storage
                    v == IF HookOf(c) = "useStateValue"
                         THEN validateComputeFunctionPurity(
                                  st, hk, c, getStateValue(state))
                         ELSE [st |-> st, threw |-> FALSE]
                    first == getSnapshot(v.st, hk, c, state)
                    cleared == clear(first.st, <<stateInstance(c, h)>>)
                    r == getSnapshot(cleared, hk, c, state)
                IN  /\ uses' = uses + 1
                    /\ IF v.threw
                       THEN /\ managers' = [managers EXCEPT
                                               ![m].storage = v.st]
                            /\ providers' = providers
                            /\ probe' = Probe(HookOf(c), m, pos, TRUE, Undef)
                       ELSE /\ managers' = [managers EXCEPT
                                               ![m].storage = r.st]
                            /\ providers' =
                                 [providers EXCEPT ![ctx.p].subscribers =
                                     @ \cup {stateInstance(c, h)}]
                            /\ probe' = Probe(HookOf(c), m, pos, FALSE,
                                              r.out.val)
    /\ UNCHANGED <<coreVars, helperVars, sync, eventVars>>
    /\ UNCHANGED <<persistent, window, contexts>>

InstanceStates == {[k \in {"count"} |-> Num(0)]}

InstanceMutations == {Assign("count", Num(5))}

InstancesInit ==
    /\ ManagerFields({<<>>})
    /\ persistent \in BOOLEAN
    /\ window = <<>>
    /\ managers = <<>>
    /\ providers = <<>>
    /\ contexts = 0
    /\ uses = 0
    /\ probe = NoProbe
    /\ NoHelperCall
    /\ NoSynchronizer
    /\ NoEvents

InstancesNext ==
    \/ \E id \in InstanceIds : Construct(id)
    \/ \E m \in 1..MaxManagers : \E s \in InstanceStates :
            SetInitialState(m, s)
    \/ \E m \in 1..MaxManagers :
         \E init \in {Undef} \cup {Obj(s) : s \in InstanceStates} :
            RenderProvider(m, init)
    \/ \E m \in 1..MaxManagers, pos \in 0..MaxProviders :
         \E mut \in InstanceMutations : UseSetState(m, pos, mut)
    \/ \E m \in 1..MaxManagers, pos \in 0..MaxProviders :
            UseSnapshot(m, pos, "count")
    \/ \E c \in Consumers, m \in 1..MaxManagers, pos \in 0..MaxProviders :
            UseHook(c, m, pos, "count")

SpecInstances == InstancesInit /\ [][InstancesNext]_vars

----------------------------------------------------------------------------
(* Claims about instances and Providers                                    *)

\* the states established through manager k: the one it was given as its
\* initial state, and the live State of each Provider of its context
Established(k) ==
    {managers[k].stateValue}
        \cup {providers[q].stateRef :
                q \in {x \in DOMAIN providers :
                         providers[x].context = managers[k].context}}

\* C22: in a browser, createStateManager called again with the same
\* explicit identifier reuses the same logical instance: the new manager has
\* the context handle of the first and a state established through the
\* first, not an empty one.  Every other construction, and every
\* construction on a server, makes a fresh instance: a new context handle
\* and the empty state.
C22_SameIdentifierReusesInstance ==
    [][probe'.op = "construct"
       => LET n == managers'[Len(managers')]
              earlier == {k \in DOMAIN managers :
                            managers[k].contextId = n.contextId}
          IN  IF persistent /\ earlier # {}
              THEN \A k \in earlier :
                      /\ n.context = managers[k].context
                      /\ n.stateValue \in Established(k)
              ELSE /\ n.context
                        \notin {managers[k].context : k \in DOMAIN managers}
                   /\ n.stateValue = <<>>]_vars

\* C23: one State per state-manager instance, shared by all its consumers.
\* After a setState through a consumer under one Provider element the
\* snapshot of a consumer under any Provider element of the same instance
\* is the snapshot of the State just committed.
C23_OneStatePerInstance ==
    [][(probe'.op = "useSetState" /\ ~probe'.threw)
       => \A q \in DOMAIN providers' :
            providers'[q].context = managers[probe'.m].context
                => getStateValue(providers'[q].stateRef)
                     = getStateValue(providers'[probe'.pos].stateRef)]_vars

HookOps == {"useState", "useStateValue", "useSetState", "useSnapshot"}

\* C24: useState, useStateValue, useSetState and useSnapshot throw at once
\* when the component is under no Provider of the manager's context: no
\* state is read or changed, no subscriber registered, no identifier made
\* and no cache entry written.
C24_NoProviderThrows ==
    [][(/\ probe'.op \in HookOps
        /\ \/ probe'.pos \notin DOMAIN providers
           \/ providers[probe'.pos].context # managers[probe'.m].context)
       => /\ probe'.threw
          /\ UNCHANGED <<window, managers, providers, contexts, uses>>
          /\ UNCHANGED coreVars]_vars

\* useState threw under a Provider of another instance, where a consumer of
\* that instance is subscribed
C24_Witness ==
    /\ probe.op = "useState"
    /\ probe.threw
    /\ probe.pos \in DOMAIN providers
    /\ providers[probe.pos].context # managers[probe.m].context
    /\ providers[probe.pos].subscribers # {}
    /\ \E k \in DOMAIN managers : managers[k].storage # <<>>

----------------------------------------------------------------------------
(* Server rendering and hydration: getServerSnapshot                       *)

\* the cache id of the third argument of useSyncExternalStore
ServerSnapshotId(c, h) ==
    IF HookOf(c) = "useState" THEN snapshotInstance(c, h)
    ELSE "hasComputeFunctionSnapshot"

\* getServerSnapshot read from the live State through the live slot
getServerSnapshotOfLive(st, hk, c, baseline) ==
    getSnapshot(st, hk, c, stateRef)

\* getServerSnapshot of consumer c: compute on the module-level stateValue,
\* then through the cache under the consumer's stateInstance path
getServerSnapshot(st, hk, c, baseline) ==
    cache(st,
          Boxed(compute(hk[c].fn, baseline, 3), UsedRefs(st, hk)),
          ServerSnapshotId(c, hk[c]), <<stateInstance(c, hk[c])>>)

\* First render of consumer c on the server or while React hydrates it: the
\* hook body, where useSyncExternalStore calls getServerSnapshot and not
\* getSnapshot.
Hydrate(c, fn) ==
    /\ hooks[c].pc = "idle"
    /\ uidCount + 3 <= 1 + 3 * MaxHooks
    /\ LET h == [NoHook EXCEPT !.pc = "rendered", !.fn = fn,
                               !.sid = made[c] + 1]
           hk == [hooks EXCEPT ![c] = h]
           v == IF HookOf(c) = "useStateValue"
                THEN validateComputeFunctionPurity(storage, hk, c,
                                                   getStateValue(stateRef))
                ELSE [st |-> storage, threw |-> FALSE]
           r == getServerSnapshot(v.st, hk, c, stateValue)
       IN  /\ uidCount' = uidCount + 3
           /\ IF v.threw
              THEN /\ storage' = v.st
                   /\ hooks' = hooks
              ELSE /\ storage' = r.st
                   /\ hooks' = [hk EXCEPT ![c].snap = r.out]
           /\ made' = [made EXCEPT ![c] = @ + 1]
           /\ last' = Op("hydrate", c, fn, NoMutation, v.threw, FALSE, <<>>,
                         NoneNotified)
    /\ UNCHANGED otherVars
    /\ UNCHANGED <<call, stateValue, stateRef, subscribers, held, callerVars>>

\* derivation functions that select a field of the State
FieldComputes(c) == IF c = 1 THEN {"count"} ELSE {"name"}

HydrationNext ==
    \/ \E c \in Consumers : \E fn \in FieldComputes(c) : Hydrate(c, fn)
    \/ \E c \in Consumers : Mount(c)
    \/ \E c \in Consumers : Rerender(c)
    \/ \E c \in Consumers : Unmount(c)
    \/ \E m \in ManagerMutations : SetState(m, TRUE)
    \/ Revert

SpecHydration == MgrInit /\ [][HydrationNext]_vars

\* C25: getServerSnapshot returns f of the baseline state, the state the
\* manager started from: setState and revert calls on the live State do not
\* change what it returns, and the value is memoized in a slot of the
\* consumer that is not the slot of its live getSnapshot, which is left
\* as it was.
C25_ServerSnapshotFromBaseline ==
    [][(last'.op = "hydrate" /\ ~last'.threw)
       => LET c == last'.c
              h == hooks'[c]
              serverPos == <<stateInstance(c, h), ServerSnapshotId(c, h)>>
              livePos == <<stateInstance(c, h), SnapshotId(c, h)>>
          IN  /\ h.snap.val = stateValue[h.fn]
              /\ serverPos # livePos
              /\ HoldsValue(storage', serverPos)
              /\ Stored(NodeAt(storage', serverPos)) = h.snap
              /\ NodeAt(storage', livePos) = NodeAt(storage, livePos)]_vars

\* a consumer hydrated after a setState changed the field it selects, with
\* the revert closure still held: it got the baseline value, not the live one
C25_Witness ==
    /\ last.op = "hydrate"
    /\ ~last.threw
    /\ last.fn = "count"
    /\ stateRef["count"] = Num(5)
    /\ stateValue["count"] = Num(0)
    /\ held.live
    /\ hooks[1].snap = Prim(Num(0))
    /\ hooks[2].pc = "mounted"

----------------------------------------------------------------------------
(* Cache paths of different consumers                                      *)

\* the Symbols of the latest hook instance of consumer c
SymbolsOf(c, n) ==
    {Sym(c, n, role) :
        role \in {"stateInstance", "getSnapshotFunction", "snapshotInstance"}}

\* C26: cache isolation between consumers.  The identifiers uid() made for
\* the hook instances are pairwise distinct, and the cache and clear calls
\* of one consumer's render, mount or re-render leave every slot outside
\* that consumer's own stateInstance path as it was, and the snapshot
\* reference every other consumer holds.
C26_CacheIsolation ==
    [][last'.op \in {"render", "mount", "rerender"}
       => LET c == last'.c
              own == Sym(c, made'[c], "stateInstance")
          IN  /\ \A p \in DOMAIN storage \cup DOMAIN storage' :
                    (Len(p) > 0 /\ p[1] # own)
                        => NodeAt(storage', p) = NodeAt(storage, p)
              /\ \A d \in Consumers \ {c} : hooks'[d] = hooks[d]
              /\ Cardinality(UNION {SymbolsOf(d, made'[d]) : d \in Consumers})
                    = 3 * Cardinality(Consumers)]_vars

\* consumer 1 was mounted (its path cleared, its snapshot cached again)
\* while consumer 2 holds an object snapshot memoized under its own path
C26_Witness ==
    /\ last.op = "mount"
    /\ last.c = 1
    /\ hooks[2].pc = "mounted"
    /\ hooks[2].snap.ref > 0
    /\ \E p \in LeafPositions(storage) :
            /\ p[1] = Sym(2, made[2], "stateInstance")
            /\ Stored(storage[p]) = hooks[2].snap
    /\ \E p \in LeafPositions(storage) : p[1] = Sym(1, made[1], "stateInstance")

----------------------------------------------------------------------------
(* deepClone and deepEqual on objects that refer to each other             *)

InputObjects == 2   \* objects the caller has made before the first call
MaxStack == 8       \* calls the JavaScript stack holds before RangeError

\* A heap is a sequence of objects; the address of an object is its index.
\* An object has a tag (what it is an instance of) and one slot x: the
\* property x of a plain object or of a class instance, the element of an
\* array or Set, the value of a Map entry, the time of a Date, the entry of
\* a FormData.  A value is a number or a reference to an object.
Ptr(a) == [t |-> "ptr", v |-> a]

Tags == {"object", "class", "array", "map", "set", "date", "form"}

HeapObject(tag, x) == [tag |-> tag, x |-> x]

\* a.constructor
constructorOf(o) ==
    IF o.tag = "object" THEN "Object"
    ELSE IF o.tag = "class" THEN "Point"
    ELSE IF o.tag = "array" THEN "Array"
    ELSE IF o.tag = "map" THEN "Map"
    ELSE IF o.tag = "set" THEN "Set"
    ELSE IF o.tag = "date" THEN "Date" ELSE "FormData"

\* Object.keys(a): the own enumerable properties
keyListOf(o) == IF o.tag \in {"object", "class"} THEN {"x"} ELSE {}

Overflow == [t |-> "RangeError", v |-> 0]

\* deepClone(value, cache): the heap and the cache afterwards and the value
\* returned; fuel is the room left on the stack
RECURSIVE deepCloneIn(_, _, _, _)
deepCloneIn(hp, cch, value, fuel) ==
    IF fuel = 0
    THEN [hp |-> hp, cache |-> cch, out |-> Overflow]
    ELSE IF value.t # "ptr"
    THEN [hp |-> hp, cache |-> cch, out |-> value]
    ELSE IF value.v \in DOMAIN cch
    THEN [hp |-> hp, cache |-> cch, out |-> Ptr(cch[value.v])]
    ELSE LET o == hp[value.v]
             n == Len(hp) + 1
         IN  IF o.tag = "date"
             THEN [hp |-> Append(hp, o), cache |-> cch, out |-> Ptr(n)]
             ELSE IF o.tag = "form"
             THEN [hp |-> hp, cache |-> cch, out |-> value]
             ELSE LET made1 == HeapObject(IF o.tag = "class" THEN "object"
                                          ELSE o.tag, Undef)
                      r == deepCloneIn(Append(hp, made1),
                                       [a \in DOMAIN cch \cup {value.v} |->
                                          IF a = value.v THEN n ELSE cch[a]],
                                       o.x, fuel - 1)
                  IN  IF r.out = Overflow THEN r
                      ELSE [hp |-> [r.hp EXCEPT ![n].x = r.out],
                            cache |-> r.cache, out |-> Ptr(n)]

\* deepEqual(a, b): "true", "false", or "RangeError" when the recursion
\* runs out of stack
RECURSIVE deepEqualIn(_, _, _, _)
deepEqualIn(hp, a, b, fuel) ==
    IF fuel = 0 THEN "RangeError"
    ELSE IF a = b THEN "true"
    ELSE IF a.t = "ptr" /\ b.t = "ptr"
    THEN LET oa == hp[a.v]
             ob == hp[b.v]
         IN  IF oa.tag = "array" /\ ob.tag = "array"
             THEN deepEqualIn(hp, oa.x, ob.x, fuel - 1)
             ELSE IF (oa.tag = "array") # (ob.tag = "array") THEN "false"
             ELSE IF (oa.tag = "date") # (ob.tag = "date") THEN "false"
             ELSE IF oa.tag = "date"
             THEN IF oa.x = ob.x THEN "true" ELSE "false"
             ELSE IF constructorOf(oa) # constructorOf(ob) THEN "false"
             ELSE IF keyListOf(oa) = {} THEN "true"
             ELSE deepEqualIn(hp, oa.x, ob.x, fuel - 1)
    ELSE "false"

HelperCall(op, out, result) == [op |-> op, out |-> out, result |-> result]

\* const c = deepClone(v), v the object at address a
Clone(a) ==
    /\ Len(heap) = InputObjects
    /\ a \in DOMAIN heap
    /\ LET r == deepCloneIn(heap, <<>>, Ptr(a), MaxStack)
       IN  /\ heap' = r.hp
           /\ args' = <<Ptr(a)>>
           /\ outcome' = HelperCall("deepClone", r.out,
                                    IF r.out = Overflow THEN "RangeError"
                                    ELSE "returned")
    /\ UNCHANGED <<coreVars, instanceVars, sync, eventVars>>

\* deepEqual(v, w), v and w the objects at addresses a and b
Equal(a, b) ==
    /\ a \in DOMAIN heap
    /\ b \in DOMAIN heap
    /\ args' = <<Ptr(a), Ptr(b)>>
    /\ outcome' = HelperCall("deepEqual", Undef,
                             deepEqualIn(heap, Ptr(a), Ptr(b), MaxStack))
    /\ UNCHANGED <<coreVars, instanceVars, sync, eventVars, heap>>

\* what the slot of an object of the given tag can hold
SlotValues(tag) ==
    IF tag \in {"date", "form"} THEN {Num(0), Num(1)}
    ELSE {Num(0), Num(1)} \cup {Ptr(a) : a \in 1..InputObjects}

InputHeaps ==
    {hp \in [1..InputObjects -> [tag : Tags, x : {Num(0), Num(1)} \cup
                                   {Ptr(a) : a \in 1..InputObjects}]] :
        \A a \in 1..InputObjects : hp[a].x \in SlotValues(hp[a].tag)}

HelpersInit ==
    /\ ManagerFields({<<>>})
    /\ NoInstances
    /\ NoSynchronizer
    /\ NoEvents
    /\ heap \in InputHeaps
    /\ args = <<>>
    /\ outcome = HelperCall("init", Undef, "none")

HelpersNext ==
    \/ \E a \in 1..InputObjects : Clone(a)
    \/ \E a, b \in 1..(2 * InputObjects) : Equal(a, b)

SpecHelpers == HelpersInit /\ [][HelpersNext]_vars

\* the objects a value reaches
RECURSIVE ReachIn(_, _, _)
ReachIn(hp, seen, n) ==
    IF n = 0 THEN seen
    ELSE ReachIn(hp,
                 seen \cup {hp[a].x.v : a \in {b \in seen : hp[b].x.t = "ptr"}},
                 n - 1)

Reachable(hp, value) ==
    IF value.t # "ptr" THEN {} ELSE ReachIn(hp, {value.v}, Len(hp))

\* C27: deepClone and deepEqual terminate on cyclic structures.  deepClone
\* of a value that contains a reference cycle returns, and deepEqual of two
\* distinct values that each contain a cycle returns a boolean.
C27_TerminateOnCycles ==
    [][/\ outcome'.op = "deepClone" => outcome'.result = "returned"
       /\ outcome'.op = "deepEqual" => outcome'.result \in {"true", "false"}
      ]_vars

\* C28: deepClone returns a fully independent structural copy.  For every
\* value it accepts, deepEqual of the clone and the value is true, and no
\* mutable object reachable from the clone is an object reachable from the
\* value.
C28_CloneIsIndependentCopy ==
    [][(outcome'.op = "deepClone" /\ outcome'.result = "returned")
       => /\ deepEqualIn(heap', outcome'.out, args'[1], MaxStack) = "true"
          /\ Reachable(heap', outcome'.out) \cap Reachable(heap', args'[1])
                = {}]_vars

----------------------------------------------------------------------------
(* createTranslator                                                        *)

MaxLen == 3   \* characters in a translation text

\* A string is a sequence of characters.
Chars == {"{", "}", "n", "N", "!"}

toLowerCase(ch) == IF ch = "N" THEN "n" ELSE ch

\* value.toString() of a replacement value, a string or a number
toString(value) == IF value.t = "num" THEN <<ToString(value.v)>> ELSE value.v

\* the regular expression new RegExp(key, 'gi') matches text at index i
matchAt(text, i, key) ==
    /\ i + Len(key) - 1 <= Len(text)
    /\ \A j \in 1..Len(key) :
            toLowerCase(text[i + j - 1]) = toLowerCase(key[j])

\* caseInsensitiveReplace[matched.toLowerCase()]: Object.fromEntries keeps
\* the last entry of a key
lookup(entries, matched) ==
    LET same == {k \in 1..Len(entries) :
                    /\ Len(entries[k].key) = Len(matched)
                    /\ \A j \in 1..Len(matched) :
                          toLowerCase(entries[k].key[j])
                            = toLowerCase(matched[j])}
    IN  entries[CHOOSE k \in same : \A l \in same : l <= k].value

\* matchedText.replace(regex, replacer) from index i on; the regex is the
\* keys joined by '|' with flags gi: at each index the first key that
\* matches is taken
RECURSIVE replaceFrom(_, _, _)
replaceFrom(text, i, entries) ==
    IF i > Len(text) THEN <<>>
    ELSE LET hits == {k \in 1..Len(entries) : matchAt(text, i, entries[k].key)}
         IN  IF hits = {}
             THEN <<text[i]>> \o replaceFrom(text, i + 1, entries)
             ELSE LET k == CHOOSE h \in hits : \A l \in hits : h <= l
                      matched == SubSeq(text, i, i + Len(entries[k].key) - 1)
                  IN  toString(lookup(entries, matched))
                        \o replaceFrom(text, i + Len(entries[k].key), entries)

\* createTranslator(currentLanguage)(translation, replace); translation
\* is a function from languages to texts, replace is given or not
translate(currentLanguage, translation, replace) ==
    LET matchedText == IF currentLanguage \in DOMAIN translation
                       THEN translation[currentLanguage] ELSE <<>>
    IN  IF ~replace.given THEN matchedText
        ELSE IF Len(replace.entries) = 0 THEN matchedText
        ELSE replaceFrom(matchedText, 1, replace.entries)

Translate ==
    /\ outcome.op = "init"
    /\ outcome' = HelperCall("translate",
                             translate(args.language, args.translation,
                                       args.replace),
                             "returned")
    /\ UNCHANGED <<coreVars, instanceVars, sync, eventVars, heap, args>>

Texts == UNION {[1..n -> Chars] : n \in 0..MaxLen}

Replacements ==
    {[given |-> FALSE, entries |-> <<>>], [given |-> TRUE, entries |-> <<>>]}
        \cup {[given |-> TRUE, entries |-> <<[key |-> <<k>>, value |-> x]>>] :
                k \in {"n", "N"}, x \in {Str(<<"J">>), Num(5)}}

TranslatorInit ==
    /\ ManagerFields({<<>>})
    /\ NoInstances
    /\ NoSynchronizer
    /\ NoEvents
    /\ heap = <<>>
    /\ args \in [language : {"en", "fr"},
                 translation : {[l \in {"en"} |-> text] : text \in Texts},
                 replace : Replacements]
    /\ outcome = HelperCall("init", <<>>, "none")

TranslatorNext == Translate

SpecTranslator == TranslatorInit /\ [][TranslatorNext]_vars

\* text with every placeholder {key} replaced by the characters of x
RECURSIVE Interpolated(_, _, _, _)
Interpolated(text, i, key, x) ==
    IF i > Len(text) THEN <<>>
    ELSE IF /\ i + Len(key) + 1 <= Len(text)
            /\ text[i] = "{"
            /\ SubSeq(text, i + 1, i + Len(key)) = key
            /\ text[i + Len(key) + 1] = "}"
    THEN x \o Interpolated(text, i + Len(key) + 2, key, x)
    ELSE <<text[i]>> \o Interpolated(text, i + 1, key, x)

\* C29: placeholder replacement with the {key} syntax.  For a text that
\* contains {k} and a replacement mapping k to x the translator returns the
\* text with x in place of the whole placeholder {k}; a text translated
\* without replacements is returned as it is.
C29_PlaceholderReplaced ==
    [][outcome'.op = "translate"
       => LET text == args.translation["en"]
              entries == args.replace.entries
          IN  IF args.language # "en" THEN outcome'.out = <<>>
              ELSE IF entries = <<>> THEN outcome'.out = text
              ELSE Interpolated(text, 1, entries[1].key, <<>>) # text
                     => outcome'.out
                          = Interpolated(text, 1, entries[1].key,
                                         toString(entries[1].value))]_vars

----------------------------------------------------------------------------
(* StateSynchronizer                                                       *)

\* the props of a StateSynchronizer element: data, undefined or a value,
\* and updateStateOnDataChanged, undefined ("") or one of two functions:
\* "count" is (draft, data) => { draft.count = data }, "name" is
\* (draft, data) => { draft.name = data }
SyncData == {Undef, Num(0), Num(1), Num(2)}
SyncFunctions == {"", "count", "name"}

\* !x for a value of the model
Falsy(x) == x.t = "undef" \/ x = Num(0)

Synchronizer(mounted, firstLoaded, data, fn, event, sets) ==
    [mounted |-> mounted, firstLoaded |-> firstLoaded, data |-> data,
     fn |-> fn, event |-> event, sets |-> sets]

\* the effect of StateSynchronizer, run with the props (data, fn): the
\* ref, the State afterwards and how many setState calls it made
syncEffect(firstLoaded, state, data, fn) ==
    IF ~firstLoaded
    THEN [firstLoaded |-> TRUE, state |-> state, sets |-> 0]
    ELSE IF fn = "" \/ Falsy(data)
    THEN [firstLoaded |-> TRUE, state |-> state, sets |-> 0]
    ELSE [firstLoaded |-> TRUE,
          state |-> Spread(state,
                           produceWithPatches(state, Assign(fn, data)).st),
          sets |-> 1]

\* the element is mounted: first render, then the effect runs
MountSync(data, fn) ==
    /\ ~sync.mounted
    /\ LET e == syncEffect(FALSE, stateRef, data, fn)
       IN  /\ sync' = Synchronizer(TRUE, e.firstLoaded, data, fn, "mount",
                                   e.sets)
           /\ stateRef' = e.state
    /\ UNCHANGED <<storage, call, stateValue, subscribers, hooks, uidCount,
                   made, held, handles, owned, last>>
    /\ UNCHANGED <<instanceVars, helperVars, eventVars>>

\* the element is rendered again with other props: a dependency of the
\* effect changed, so the effect runs
UpdateSync(data, fn) ==
    /\ sync.mounted
    /\ <<fn, data>> # <<sync.fn, sync.data>>
    /\ LET e == syncEffect(sync.firstLoaded, stateRef, data, fn)
       IN  /\ sync' = Synchronizer(TRUE, e.firstLoaded, data, fn, "update",
                                   e.sets)
           /\ stateRef' = e.state
    /\ UNCHANGED <<storage, call, stateValue, subscribers, hooks, uidCount,
                   made, held, handles, owned, last>>
    /\ UNCHANGED <<instanceVars, helperVars, eventVars>>

\* the element is unmounted: its ref is gone
UnmountSync ==
    /\ sync.mounted
    /\ sync' = Synchronizer(FALSE, FALSE, Undef, "", "unmount", 0)
    /\ UNCHANGED coreVars
    /\ UNCHANGED <<instanceVars, helperVars, eventVars>>

SyncInit ==
    /\ ManagerFields({<<>>})
    /\ NoInstances
    /\ NoHelperCall
    /\ sync = Synchronizer(FALSE, FALSE, Undef, "", "none", 0)
    /\ NoEvents

SyncNext ==
    \/ \E data \in SyncData, fn \in SyncFunctions : MountSync(data, fn)
    \/ \E data \in SyncData, fn \in SyncFunctions : UpdateSync(data, fn)
    \/ UnmountSync

SpecSync == SyncInit /\ [][SyncNext]_vars

\* C30: StateSynchronizer never applies updateStateOnDataChanged on its
\* first effect run after mounting.  On each later change of data or of
\* the function it makes exactly one setState that applies the function to
\* the draft and the new data, and it makes none while data or the function
\* is missing.
C30_SyncOnLaterChanges ==
    [][/\ sync'.event = "mount" => (sync'.sets = 0 /\ stateRef' = stateRef)
       /\ sync'.event = "update"
            => IF sync'.fn = "" \/ sync'.data.t = "undef"
               THEN sync'.sets = 0 /\ stateRef' = stateRef
               ELSE /\ sync'.sets = 1
                    /\ sync'.fn \in DOMAIN stateRef'
                    /\ stateRef'[sync'.fn] = sync'.data
                    /\ \A k \in DOMAIN stateRef \ {sync'.fn} :
                          k \in DOMAIN stateRef' /\ stateRef'[k] = stateRef[k]
      ]_vars

----------------------------------------------------------------------------
(* The purity validator with derivations that are not pure                 *)

PurityNext ==
    \/ \E fn \in {"name", "random", "randomSet"} : Render(2, fn)
    \/ Mount(2)
    \/ Rerender(2)
    \/ Unmount(2)
    \/ \E m \in ValidatorMutations : SetState(m, FALSE)

SpecPurity == ValidatorInit /\ [][PurityNext]_vars

\* C31: purity validation throws whenever the compute function returns
\* different values on two consecutive calls with the same state, and the
\* validation run leaves the slot of the consumer's live snapshot as it
\* was.
C31_UnstableDerivationThrows ==
    [][(/\ last'.op \in {"render", "rerender"}
        /\ HookOf(last'.c) = "useStateValue"
        /\ last'.fn \in {"random", "randomSet"})
       => LET livePos == <<Sym(last'.c, made'[last'.c], "stateInstance"),
                           "getSnapshotWithComputeFunction">>
          IN  /\ last'.threw
              /\ NodeAt(storage', livePos) = NodeAt(storage, livePos)]_vars

----------------------------------------------------------------------------
(* Updates that fail                                                       *)

\* draft functions and partial mappings, some of which throw: draft.tags
\* .add(2) throws when the State has no tags, and a partial mapping with a
\* WeakMap makes deepClone throw after count was assigned to the draft
AtomicMutations ==
    {Assign("count", Num(5)), Assign("tags", SetOf({1})), SetAdd("tags", 2),
     Partial([k \in {"count", "ref"} |->
                IF k = "count" THEN Num(10) ELSE WeakMapOf])}

AtomicNext ==
    \/ \E c \in Consumers : \E fn \in FieldComputes(c) : Render(c, fn)
    \/ \E c \in Consumers : Mount(c)
    \/ \E c \in Consumers : Unmount(c)
    \/ \E m \in AtomicMutations : SetState(m, TRUE)
    \/ Revert

SpecAtomic == StateInit /\ [][AtomicNext]_vars

\* the mutation descriptor raises when applied to the state
Raises(m, state) ==
    \/ /\ m.kind = "setAdd"
       /\ (m.key \notin DOMAIN state \/ state[m.key].t # "set")
    \/ /\ m.kind = "partial"
       /\ \E k \in DOMAIN m.map : m.map[k].t = "weak"

\* C32: a failing update is atomic.  When the mutation descriptor raises
\* during setState the error reaches the caller, the State is what it was
\* before the call, no subscriber is notified, and neither the cache nor a
\* revert closure changes.
C32_FailingUpdateAtomic ==
    [][(last'.op = "setState" /\ Raises(last'.m, stateRef))
       => /\ last'.threw
          /\ stateRef' = stateRef
          /\ last'.notified = NoneNotified
          /\ hooks' = hooks
          /\ storage' = storage
          /\ held' = held]_vars

\* a partial mapping with a WeakMap failed while a consumer selecting count
\* is subscribed and a revert closure of an earlier update is held
C32_Witness ==
    /\ last.op = "setState"
    /\ last.threw
    /\ last.m.kind = "partial"
    /\ hooks[1].pc = "mounted"
    /\ 1 \in Range(subscribers)
    /\ held.live
    /\ "count" \in DOMAIN stateRef
    /\ stateRef["count"] = Num(5)

----------------------------------------------------------------------------
(* The State a mutation commits                                            *)

\* C33: the State committed by setState(M) is the result of applying M to
\* the previous State.  After a draft function deletes a top-level field
\* the State no longer has that field.
C33_CommittedStateIsResult ==
    [][(last'.op = "setState" /\ ~last'.threw)
       => /\ stateRef' = produceWithPatches(stateRef, last'.m).st
          /\ last'.m.kind = "delete" => last'.m.key \notin DOMAIN stateRef'
      ]_vars


----------------------------------------------------------------------------
(* The frame of a revert closure                                           *)

\* the top-level fields the inverse patches of a closure name
TouchedBy(inv) == {p.key : p \in Range(inv)}

\* C34: calling the revert closure of an update, after any later updates,
\* changes no top-level field the update's inverse patches do not name:
\* such a field is present after the revert exactly if it was before, with
\* the value the later updates gave it.
C34_RevertFrame ==
    [][last'.op = "revert"
       => \A k \in (DOMAIN stateRef \cup DOMAIN stateRef') \ TouchedBy(held.inv) :
             /\ k \in DOMAIN stateRef
             /\ k \in DOMAIN stateRef'
             /\ stateRef'[k] = stateRef[k]]_vars

\* the closure of an update that changed name only was called after a later
\* update had changed count: name was put back and count kept its new value
C34_Witness ==
    /\ last.op = "revert"
    /\ held.live
    /\ TouchedBy(held.inv) = {"name"}
    /\ {"count", "name"} \subseteq DOMAIN stateRef \cap DOMAIN last.base
    /\ last.base["name"] # stateRef["name"]
    /\ stateRef["count"] # Num(0)
    /\ stateRef["count"] = last.base["count"]


----------------------------------------------------------------------------
(* Selectors of a collection held in the State                             *)

\* mutations of the Set under tags, and one of another field
CollectionMutations ==
    {SetAdd("tags", 2), Assign("tags", SetOf({2})), Assign("count", Num(5))}

CollectionNext ==
    \/ \E fn \in {"tags", "identity"} : Render(1, fn)
    \/ Mount(1)
    \/ Rerender(1)
    \/ Unmount(1)
    \/ \E m \in CollectionMutations : SetState(m, TRUE)
    \/ Revert

SpecCollections == MgrInit /\ [][CollectionNext]_vars

\* C35 as claimed: after a committed mutation changed the contents of a Set
\* held in the State, a selector returning the Set, or the State holding it,
\* yields the updated contents: the snapshot a consumer took after the last
\* commit is structurally the derivation function applied to the State.
C35_CollectionSnapshotCurrent ==
    \A c \in Consumers :
        (/\ HasSnapshot(hooks[c]) /\ ~hooks[c].dirty
         /\ hooks[c].fn \in {"tags", "identity"})
        => StructEq(hooks[c].snap, Prim(compute(hooks[c].fn, stateRef, 3)))


----------------------------------------------------------------------------
(* The cache sub-path of a consumer across its mount                       *)

\* C36 as claimed: a consumer's cache sub-path is not cleared while the
\* consumer is observing.  When no mutation happened since its first render,
\* the mount effects leave every entry under its stateInstance identifier as
\* it was, and the snapshot taken right after them is reference-equal to the
\* snapshot of the first render.
C36_MountKeepsSubPath ==
    [][\A c \in Consumers :
        (/\ last'.op = "mount" /\ last'.c = c
         /\ HasSnapshot(hooks[c]) /\ ~hooks[c].dirty)
        => /\ \A p \in SubPath(storage, c, hooks[c]) :
                p \in DOMAIN storage' /\ storage'[p] = storage[p]
           /\ StrictEq(hooks'[c].snap, hooks[c].snap)]_vars


----------------------------------------------------------------------------
(* Notification passes whose callbacks change the registry                 *)

\* callbacks that return and call neither setState nor a revert closure
PassCallbacks == {"reader", "joiner", "leaver", "remover", "rejoiner"}

\* the for...of of the last call was left running: the call has not returned
Hung ==
    /\ last.op \in {"setState", "revert"}
    /\ ~last.threw
    /\ \A i \in DOMAIN last.log : last.log[i].ev # "end"

PassNext ==
    /\ ~Hung
    /\ \/ \E cb \in PassCallbacks : Subscribe(cb)
       \/ \E cb \in PassCallbacks : Unsubscribe(cb)
       \/ \E keep \in BOOLEAN : SetStateLive(Assign("count", Num(5)), keep)
       \/ RevertLive

SpecPass == RegistryInit /\ [][PassNext]_vars

\* C37 as claimed: a notification pass terminates when every callback
\* returns and none calls setState or a revert closure, also when callbacks
\* unsubscribe and re-subscribe themselves or others during the pass: the
\* for...of of every setState and revert call runs to its end.
C37_PassTerminates ==
    [][(/\ last'.op \in {"setState", "revert"}
        /\ Range(subscribers) \subseteq PassCallbacks)
       => \E i \in DOMAIN last'.log :
             last'.log[i].ev = "end" /\ last'.log[i].pass = 1]_vars


----------------------------------------------------------------------------
(* Events: useEventListener and emitEvent of createEventMethod, in a        *)
(* browser.  Each component calls useEventListener once.                    *)

MaxEmits == 2       \* emitEvent calls over a run
MaxSymbols == 3     \* runs of the listener effect over a run

\* the components calling useEventListener
Listeners == {1, 2}

EventNames == {"a", "b"}
EventData == {1, 2}

\* the handle functions a component passes:
\*   sync    data => value
\*   throws  data => { throw new Error() }
\*   async   async (data, signal) => { await ...; ... }, which ends later:
\*           it returns value, it throws, or, when it finds signal aborted,
\*           it throws an Error named 'AbortError'
Handles == {"sync", "throws", "async"}

\* the handle functions each component is mounted with
HandlesOf(l) == IF l = 1 THEN {"throws", "async"} ELSE {"sync"}

\* the value the handle of component l returns for data
valueOf(l, data) == Num(10 * l + data)

\* a hook instance: the event it listens to, handleRef.current, the Symbol
\* of its registry entry, abortControllerRef.current (0: null)
ListenerHook(mounted, event, handle, id, ctrl) ==
    [mounted |-> mounted, event |-> event, handle |-> handle, id |-> id,
     ctrl |-> ctrl]

NoListener == ListenerHook(FALSE, "", "", 0, 0)

\* a registry entry {event, handle: stableHandler} under the Symbol id; l
\* is the component whose stableHandler it holds
Entry(id, event, l) == [id |-> id, event |-> event, l |-> l]

\* one call of stableHandler: for entry id of component l, made by
\* emission e with data; how the handle ended ("pending" while it awaits)
\* and the value it returned.  The call's AbortController is named by the
\* call's position in invocations.
Invocation(l, id, e, data, ended, value) ==
    [l |-> l, id |-> id, e |-> e, data |-> data, ended |-> ended,
     value |-> value]

\* stableHandler(data) up to the first await of the handle
stableHandler(l, id, e, data, handle) ==
    IF handle = "sync"
    THEN Invocation(l, id, e, data, "returned", valueOf(l, data))
    ELSE IF handle = "throws"
    THEN Invocation(l, id, e, data, "threw", Undef)
    ELSE Invocation(l, id, e, data, "pending", Undef)

\* the state of the promise stableHandler returned: an AbortError is
\* caught and the promise fulfilled with undefined, any other error is
\* thrown again
settled(inv) ==
    IF inv.ended = "pending" THEN "pending"
    ELSE IF inv.ended = "threw" THEN "rejected"
    ELSE "fulfilled"

\* one emitEvent call: its arguments, the registry when it was called,
\* whether its promise has been fulfilled, and with what
Emission(event, data, at, returned, results) ==
    [event |-> event, data |-> data, at |-> at, returned |-> returned,
     results |-> results]

Did(op, l, e) == [op |-> op, l |-> l, e |-> e]

\* the loop over the results of Promise.allSettled
allSettledResults(invs) ==
    LET fulfilled == SelectSeq(invs, LAMBDA x : settled(x) = "fulfilled")
    IN  [k \in 1..Len(fulfilled) |-> fulfilled[k].value]

\* the stableHandler calls of emission e, in call order
CallsOf(invs, e) == SelectSeq(invs, LAMBDA x : x.e = e)

\* the cleanup of the listener effect of component l
cleanup(l) ==
    [aborted |-> IF listenerHooks[l].ctrl # 0
                 THEN aborted \cup {listenerHooks[l].ctrl}
                 ELSE aborted,
     listeners |-> SelectSeq(listeners,
                             LAMBDA x : x.id # listenerHooks[l].id)]

\* a component is mounted: the listener effect runs
MountListener(l, event, handle) ==
    /\ ~listenerHooks[l].mounted
    /\ symbols < MaxSymbols
    /\ symbols' = symbols + 1
    /\ listeners' = Append(listeners, Entry(symbols + 1, event, l))
    /\ listenerHooks' = [listenerHooks EXCEPT
                           ![l] = ListenerHook(TRUE, event, handle,
                                               symbols + 1, 0)]
    /\ did' = Did("mount", l, 0)
    /\ UNCHANGED <<invocations, emissions, aborted>>
    /\ UNCHANGED <<coreVars, instanceVars, helperVars, sync>>

\* a component is rendered with another event name: the cleanup of the
\* effect runs, then the effect
ChangeEvent(l, event) ==
    /\ listenerHooks[l].mounted
    /\ listenerHooks[l].event # event
    /\ symbols < MaxSymbols
    /\ symbols' = symbols + 1
    /\ aborted' = cleanup(l).aborted
    /\ listeners' = Append(cleanup(l).listeners, Entry(symbols + 1, event, l))
    /\ listenerHooks' = [listenerHooks EXCEPT ![l].event = event,
                                              ![l].id = symbols + 1]
    /\ did' = Did("change", l, 0)
    /\ UNCHANGED <<invocations, emissions>>
    /\ UNCHANGED <<coreVars, instanceVars, helperVars, sync>>

\* a component is unmounted: the cleanup of the effect runs
UnmountListener(l) ==
    /\ listenerHooks[l].mounted
    /\ aborted' = cleanup(l).aborted
    /\ listeners' = cleanup(l).listeners
    /\ listenerHooks' = [listenerHooks EXCEPT ![l] = NoListener]
    /\ did' = Did("unmount", l, 0)
    /\ UNCHANGED <<invocations, emissions, symbols>>
    /\ UNCHANGED <<coreVars, instanceVars, helperVars, sync>>

\* emitEvent(event, data) up to its await: the loop over the registry
Emit(event, data) ==
    /\ Len(emissions) < MaxEmits
    /\ LET e == Len(emissions) + 1
           matching == SelectSeq(listeners, LAMBDA x : x.event = event)
           calls == [k \in 1..Len(matching) |->
                        stableHandler(matching[k].l, matching[k].id, e, data,
                                      listenerHooks[matching[k].l].handle)]
       IN  /\ invocations' = invocations \o calls
           /\ listenerHooks' =
                [l \in Listeners |->
                    IF \E k \in 1..Len(matching) : matching[k].l = l
                    THEN [listenerHooks[l] EXCEPT
                            !.ctrl = Len(invocations)
                                     + (CHOOSE k \in 1..Len(matching) :
                                            matching[k].l = l)]
                    ELSE listenerHooks[l]]
           /\ emissions' = Append(emissions,
                                  Emission(event, data, listeners, FALSE,
                                           <<>>))
           /\ did' = Did("emit", 0, e)
    /\ UNCHANGED <<listeners, aborted, symbols>>
    /\ UNCHANGED <<coreVars, instanceVars, helperVars, sync>>

\* the handle of a pending call ends
Settle(i, how) ==
    /\ i \in DOMAIN invocations
    /\ invocations[i].ended = "pending"
    /\ how = "aborted" => i \in aborted
    /\ invocations' = [invocations EXCEPT
                         ![i].ended = how,
                         ![i].value = IF how = "returned"
                                      THEN valueOf(invocations[i].l,
                                                   invocations[i].data)
                                      ELSE Undef]
    /\ did' = Did("settle", invocations[i].l, invocations[i].e)
    /\ UNCHANGED <<listeners, listenerHooks, emissions, aborted, symbols>>
    /\ UNCHANGED <<coreVars, instanceVars, helperVars, sync>>

\* emitEvent after its await: every promise is settled, results is returned
Return(e) ==
    /\ e \in DOMAIN emissions
    /\ ~emissions[e].returned
    /\ \A i \in DOMAIN invocations :
          invocations[i].e = e => invocations[i].ended # "pending"
    /\ emissions' = [emissions EXCEPT
                       ![e].returned = TRUE,
                       ![e].results =
                            allSettledResults(CallsOf(invocations, e))]
    /\ did' = Did("return", 0, e)
    /\ UNCHANGED <<listeners, listenerHooks, invocations, aborted, symbols>>
    /\ UNCHANGED <<coreVars, instanceVars, helperVars, sync>>

EventsInit ==
    /\ ManagerFields({<<>>})
    /\ NoInstances
    /\ NoHelperCall
    /\ NoSynchronizer
    /\ listeners = <<>>
    /\ listenerHooks = [l \in Listeners |-> NoListener]
    /\ invocations = <<>>
    /\ emissions = <<>>
    /\ aborted = {}
    /\ symbols = 0
    /\ did = Did("init", 0, 0)

EventsNext ==
    \/ \E l \in Listeners, event \in EventNames :
          \E handle \in HandlesOf(l) : MountListener(l, event, handle)
    \/ \E l \in Listeners, event \in EventNames : ChangeEvent(l, event)
    \/ \E l \in Listeners : UnmountListener(l)
    \/ \E event \in EventNames, data \in EventData : Emit(event, data)
    \/ \E i \in 1..(2 * MaxEmits) :
          \E how \in {"returned", "threw", "aborted"} : Settle(i, how)
    \/ \E e \in 1..MaxEmits : Return(e)

SpecEvents == EventsInit /\ [][EventsNext]_vars


----------------------------------------------------------------------------
(* Claims about the events (checked under SpecEvents)                      *)

\* the entries registered for the event of an emission when it was called
RegisteredAt(em) == SelectSeq(em.at, LAMBDA x : x.event = em.event)

\* every listener registered for the event at emit time was invoked once
\* with the data, in registration order, and no other listener was
InvokedAsRegistered(em, calls) ==
    /\ Len(calls) = Len(RegisteredAt(em))
    /\ \A k \in 1..Len(calls) :
          /\ calls[k].id = RegisteredAt(em)[k].id
          /\ calls[k].data = em.data

\* the values of the calls whose handle ended in one of these ways
ValuesOf(calls, ways) ==
    LET kept == SelectSeq(calls, LAMBDA x : x.ended \in ways)
    IN  [k \in 1..Len(kept) |-> kept[k].value]

\* C38 as claimed: emitEvent(event, data) invokes every listener registered
\* for the event at emit time once with data and no listener of another
\* event, a listener that throws or rejects neither stops the others nor
\* makes emitEvent reject, and the returned array holds the results of the
\* listeners that did not fail, in registration order, the failed ones
\* omitted.
C38_FailedListenersOmitted ==
    [][did'.op = "return"
       => LET em == emissions'[did'.e]
              calls == CallsOf(invocations, did'.e)
          IN  /\ InvokedAsRegistered(em, calls)
              /\ em.returned
              /\ em.results = ValuesOf(calls, {"returned"})]_vars

\* C39 as claimed: when a listener is torn down (unmount or change of event
\* name) its entry leaves the registry, so that every later emitEvent
\* invokes registered entries only, and the abort signal of every call of
\* that listener still in flight is aborted, overlapping calls from several
\* emissions included.
C39_TeardownCancelsAll ==
    [][/\ did'.op \in {"unmount", "change"}
          => LET l == did'.l
             IN  /\ \A k \in DOMAIN listeners' :
                       listeners'[k].id # listenerHooks[l].id
                 /\ \A i \in DOMAIN invocations :
                       (/\ invocations[i].id = listenerHooks[l].id
                        /\ invocations[i].ended = "pending")
                       => i \in aborted'
       /\ did'.op = "emit"
          => \A i \in DOMAIN invocations' \ DOMAIN invocations :
                \E k \in DOMAIN listeners :
                    listeners[k].id = invocations'[i].id]_vars

====
